---- MODULE Spec2Model ----
(***************************************************************************)
(* A model of the PythonCompiler pipeline: lexical_analyzer (lines ->      *)
(* tokens), Parser (tokens -> AST, with in-line evaluation against the     *)
(* symbol table) and TACGenerator (AST -> three-address code), run in      *)
(* sequence by main().                                                     *)
(*                                                                         *)
(* A source line is [indent |-> leading white space width, words |-> the   *)
(* words re.findall() cuts out of the stripped line].  Python objects are  *)
(* records carrying their class in the field cls; None is NoneV.           *)
(*                                                                         *)
(* Spec is one run of main() on a program of statements; SpecExpr,         *)
(* SpecFor, SpecCall and SpecMore are the same run on expressions, for     *)
(* loops, calls and further statements; SpecLex is lexical_analyzer alone, *)
(* one line at a time; SpecTwice is main() run twice on the same lines;    *)
(* SpecNext is two programs compiled one after the other in one process.   *)
(***************************************************************************)
EXTENDS Integers, Sequences, FiniteSets, TLC

VARIABLES
    pc,             \* position of main(): start, lexing, lexed, parsed, generated, printed,
                    \* aborted, hung
    inp,            \* the FileObject: the source lines
    tokens,         \* listOfTokens returned by lexical_analyzer
    parser,         \* the Parser object: pos, lookahead, should_evaluate, tree
    symbolTable,    \* config.symbolTable
    functionTable,  \* config.functionTable
    tac,            \* the TACGenerator object: instructions, counters, labelPresent
    stdout,         \* the instructions printed by main()
    exc,            \* the exception that ended the run, or NoExc
    indent_stack,   \* lexical_analyzer's local: the open indentation widths
    linesRead,      \* lexical_analyzer's lineNo: the number of lines already read
    column,         \* lexical_analyzer's colNo: the column after the last token
    run,            \* which run of main() this is
    first           \* what the run before this one printed

vars == <<pc, inp, tokens, parser, symbolTable, functionTable, tac, stdout, exc,
          indent_stack, linesRead, column, run, first>>

-----------------------------------------------------------------------------
(* Python values *)

NoneV == [cls |-> "None"]

IsNone(x) == x.cls = "None"

\* a str, an int and a float (the rational n/d, d > 0, in lowest terms); a bool
PyStr(s) == [cls |-> "str", s |-> s]

PyInt(n) == [cls |-> "int", v |-> n]

PyBool(b) == [cls |-> "bool", b |-> b]

\* an empty Python list []
EmptyList == [cls |-> "list", items |-> <<>>]

NoExc == [type |-> "none", pos |-> 0, expected |-> ""]

Raise(type) == [type |-> type, pos |-> 0, expected |-> ""]

Last(s) == s[Len(s)]

\* the value of a function on a one-element domain: Only([x \in {e} |-> body]) is
\* body with x bound to the value of e
Only(f) == f[CHOOSE x \in DOMAIN f : TRUE]

Front(s) == SubSeq(s, 1, Len(s) - 1)

-----------------------------------------------------------------------------
(* The words of the source language, with their spelling: the regular      *)
(* expressions and int() of the code read characters.                      *)

Letters == {"a", "b", "c", "d", "e", "f", "g", "h", "i", "j", "k", "l", "m", "n",
            "o", "p", "q", "r", "s", "t", "u", "v", "w", "x", "y", "z",
            "A", "I", "M", "N"}

Digits == {"0", "1", "2", "3", "4", "5", "6", "7", "8", "9"}

DigitValue == [d \in Digits |->
    CASE d = "0" -> 0 [] d = "1" -> 1 [] d = "2" -> 2 [] d = "3" -> 3 [] d = "4" -> 4
      [] d = "5" -> 5 [] d = "6" -> 6 [] d = "7" -> 7 [] d = "8" -> 8 [] d = "9" -> 9]

Spell ==
    [w \in {"a", "b", "c", "i", "x", "y", "f", "g", "r0", "r1", "r2", "r3", "print", "range",
            "MAIN", "0", "1", "2", "3", "5", "7", "10", "-1", "0.5", "(", ")", ",", ":", "@",
            "=", "+", "-", "*", "/", "%", "==", "!=", "<", "<=", ">", ">=",
            "not", "if", "elif", "else", "while", "for", "in", "def", "return"} |->
     CASE w = "a" -> <<"a">> [] w = "b" -> <<"b">> [] w = "c" -> <<"c">>
       [] w = "i" -> <<"i">> [] w = "x" -> <<"x">> [] w = "y" -> <<"y">>
       [] w = "f" -> <<"f">> [] w = "g" -> <<"g">>
       [] w = "r0" -> <<"r", "0">> [] w = "r1" -> <<"r", "1">>
       [] w = "r2" -> <<"r", "2">> [] w = "r3" -> <<"r", "3">>
       [] w = "print" -> <<"p", "r", "i", "n", "t">>
       [] w = "range" -> <<"r", "a", "n", "g", "e">>
       [] w = "MAIN" -> <<"M", "A", "I", "N">>
       [] w = "0" -> <<"0">> [] w = "1" -> <<"1">> [] w = "2" -> <<"2">>
       [] w = "3" -> <<"3">> [] w = "5" -> <<"5">> [] w = "7" -> <<"7">>
       [] w = "10" -> <<"1", "0">> [] w = "-1" -> <<"-", "1">>
       [] w = "0.5" -> <<"0", ".", "5">>
       [] w = "(" -> <<"(">> [] w = ")" -> <<")">> [] w = "," -> <<",">>
       [] w = ":" -> <<":">> [] w = "@" -> <<"@">>
       [] w = "=" -> <<"=">> [] w = "+" -> <<"+">> [] w = "-" -> <<"-">>
       [] w = "*" -> <<"*">> [] w = "/" -> <<"/">> [] w = "%" -> <<"%">>
       [] w = "not" -> <<"n", "o", "t">>
       [] w = "==" -> <<"=", "=">> [] w = "!=" -> <<"!", "=">>
       [] w = "<" -> <<"<">> [] w = "<=" -> <<"<", "=">>
       [] w = ">" -> <<">">> [] w = ">=" -> <<">", "=">>
       [] w = "if" -> <<"i", "f">> [] w = "elif" -> <<"e", "l", "i", "f">>
       [] w = "else" -> <<"e", "l", "s", "e">>
       [] w = "while" -> <<"w", "h", "i", "l", "e">>
       [] w = "for" -> <<"f", "o", "r">> [] w = "in" -> <<"i", "n">>
       [] w = "def" -> <<"d", "e", "f">>
       [] w = "return" -> <<"r", "e", "t", "u", "r", "n">>]

\* re.match(r'^[A-Za-z_][A-Za-z0-9_]*$', word)
IsIdentifierShaped(word) ==
    LET s == Spell[word] IN
    /\ Len(s) >= 1
    /\ s[1] \in Letters \cup {"_"}
    /\ \A k \in 2..Len(s) : s[k] \in Letters \cup Digits \cup {"_"}

\* all the characters of s[from..to] are digits, and there is at least one
AllDigits(s, from, to) ==
    /\ from <= to
    /\ \A k \in from..to : s[k] \in Digits

\* the index of the first "." of s, or 0
DotAt(s) ==
    IF \E k \in 1..Len(s) : s[k] = "."
    THEN CHOOSE k \in 1..Len(s) : s[k] = "." /\ \A j \in 1..(k - 1) : s[j] # "."
    ELSE 0

\* re.fullmatch(r"-?\d+(\.\d+)?", word)
IsNumberShaped(word) ==
    LET s == Spell[word]
        from == IF Len(s) >= 1 /\ s[1] = "-" THEN 2 ELSE 1
        dot == DotAt(s)
    IN IF dot = 0
       THEN AllDigits(s, from, Len(s))
       ELSE AllDigits(s, from, dot - 1) /\ AllDigits(s, dot + 1, Len(s))

RECURSIVE DigitsValue(_, _, _)
\* the number the digits s[from..to] spell
DigitsValue(s, from, to) ==
    IF from > to THEN 0
    ELSE 10 * DigitsValue(s, from, to - 1) + DigitValue[s[to]]

\* str.isdigit()
isdigit(word) == LET s == Spell[word] IN AllDigits(s, 1, Len(s))

\* '.' in atr
HasDot(word) == DotAt(Spell[word]) # 0

\* int(atr): the integer a word spells, and ValueError when it spells none
IntParses(word) ==
    LET s == Spell[word]
        from == IF Len(s) >= 1 /\ s[1] \in {"-", "+"} THEN 2 ELSE 1
    IN AllDigits(s, from, Len(s))

int(word) ==
    LET s == Spell[word]
        neg == Len(s) >= 1 /\ s[1] = "-"
        from == IF Len(s) >= 1 /\ s[1] \in {"-", "+"} THEN 2 ELSE 1
        n == DigitsValue(s, from, Len(s))
    IN IF neg THEN 0 - n ELSE n

-----------------------------------------------------------------------------
(* lexical_analyzer.py *)

CONDITIONALS == {"if", "elif", "else"}

OPERATORS == {"+", "-", "*", "/", "=", "**", "//", "%"}

RELOP == {"==", "!=", "<", "<=", ">", ">="}

LOOPS == {"for", "while"}

\* keyword.kwlist
Keywords == {"False", "None", "True", "and", "as", "assert", "async", "await", "break",
             "class", "continue", "def", "del", "elif", "else", "except", "finally", "for",
             "from", "global", "if", "import", "in", "is", "lambda", "nonlocal", "not", "or",
             "pass", "raise", "return", "try", "while", "with", "yield"}

\* Token(tokenType, atr, lineNo, colNo); a missing position is None, here -1
Token(tokenType, atr, lineNo, colNo) ==
    [cls |-> "Token", tokenType |-> tokenType, atr |-> atr, lineNo |-> lineNo, colNo |-> colNo]

\* a token whose text is the word atr
WordToken(tokenType, atr, lineNo, colNo) == Token(tokenType, PyStr(atr), lineNo, colNo)

\* TokenTypeOf with the identifier pattern tried before the reserved words
TokenTypeOf_identifier_first(word) ==
    IF word \in CONDITIONALS THEN "CONDITIONAL"
    ELSE IF word \in LOOPS THEN "LOOP"
    ELSE IF word \in OPERATORS THEN "OPERATOR"
    ELSE IF word \in RELOP THEN "RELOP"
    ELSE IF word = ":" THEN "SEMICOLON"
    ELSE IF word = "def" THEN "FUNCTION"
    ELSE IF IsIdentifierShaped(word) THEN "IDENTIFIER"
    ELSE IF word \in Keywords THEN "KEYWORD"
    ELSE IF IsNumberShaped(word) THEN "CONSTANT"
    ELSE "SYMBOL"

TokenTypeOf(word) ==
    IF word \in CONDITIONALS THEN "CONDITIONAL"
    ELSE IF word \in LOOPS THEN "LOOP"
    ELSE IF word \in OPERATORS THEN "OPERATOR"
    ELSE IF word \in RELOP THEN "RELOP"
    ELSE IF word = ":" THEN "SEMICOLON"
    ELSE IF word = "def" THEN "FUNCTION"
    ELSE IF word \in Keywords THEN "KEYWORD"
    ELSE IF IsIdentifierShaped(word) /\ word \notin Keywords THEN "IDENTIFIER"
    ELSE IF IsNumberShaped(word) THEN "CONSTANT"
    ELSE "SYMBOL"

token_giver(word, line, col) == WordToken(TokenTypeOf(word), word, line, col)

RECURSIVE WordTokens_backwards(_, _, _)
\* WordTokens appending each word's token before those of the words to its left
WordTokens_backwards(words, line, col) ==
    IF words = <<>> THEN <<>>
    ELSE WordTokens_backwards(Tail(words), line, col + 1) \o <<token_giver(Head(words), line, col)>>

RECURSIVE WordTokens(_, _, _)
\* the tokens of the words of one line, columns counted from col
WordTokens(words, line, col) ==
    IF words = <<>> THEN <<>>
    ELSE <<token_giver(Head(words), line, col)>> \o WordTokens(Tail(words), line, col + 1)

RECURSIVE PopIndents_silent(_, _, _)
\* PopIndents without the append: the levels are popped and no BLOCK_END is emitted
PopIndents_silent(stack, level, lineNo) ==
    IF stack # <<>> /\ level < Last(stack)
    THEN PopIndents_silent(Front(stack), level, lineNo)
    ELSE [stack |-> stack, toks |-> <<>>]

RECURSIVE PopIndents(_, _, _)
\* while indent_stack and indent_level < indent_stack[-1]: pop, append BLOCK_END
PopIndents(stack, level, lineNo) ==
    IF stack # <<>> /\ level < Last(stack)
    THEN LET r == PopIndents(Front(stack), level, lineNo)
         IN [stack |-> r.stack,
             toks |-> <<WordToken("BLOCK_END", "end", lineNo - 1, -1)>> \o r.toks]
    ELSE [stack |-> stack, toks |-> <<>>]

RECURSIVE LexLines(_, _, _, _)
\* the loop over the lines: lineNo counts from 0 as in the code
LexLines(lines, lineNo, stack, toks) ==
    IF lineNo >= Len(lines)
    THEN [stack |-> stack, toks |-> toks, exc |-> NoExc, lineNo |-> lineNo - 1, colNo |-> 0]
    ELSE
      LET line == lines[lineNo + 1]
          level == line.indent
          n == Len(line.words)
      IN IF line.words = <<>> THEN
           IF lineNo + 1 >= Len(lines)
           THEN [stack |-> stack, toks |-> toks, exc |-> NoExc, lineNo |-> lineNo, colNo |-> 0]
           ELSE LexLines(lines, lineNo + 1, stack, toks)
         ELSE
           LET popped == PopIndents(stack, level, lineNo)
               stack1 == IF level > Last(stack) THEN Append(stack, level)
                         ELSE IF level < Last(stack) THEN popped.stack
                         ELSE stack
               block == IF level > Last(stack) THEN <<WordToken("BLOCK_BEGIN", "begin", lineNo, -1)>>
                        ELSE IF level < Last(stack) THEN popped.toks
                        ELSE <<>>
               toks1 == toks \o block \o WordTokens(line.words, lineNo, 0)
                             \o <<WordToken("NEWLINE", "\\n", lineNo, n)>>
           IN IF level < Last(stack) /\ level # Last(stack1)
              THEN [stack |-> stack1, toks |-> toks \o block,
                    exc |-> Raise("IndentationError"), lineNo |-> lineNo, colNo |-> 0]
              ELSE IF lineNo + 1 >= Len(lines)
              THEN [stack |-> stack1, toks |-> toks1, exc |-> NoExc,
                    lineNo |-> lineNo, colNo |-> n + 1]
              ELSE LexLines(lines, lineNo + 1, stack1, toks1)

RECURSIVE CloseBlocks(_, _, _)
\* while len(indent_stack) > 1: pop, append BLOCK_END, colNo += 1
CloseBlocks(stack, lineNo, colNo) ==
    IF Len(stack) > 1
    THEN <<WordToken("BLOCK_END", "end", lineNo, colNo)>> \o CloseBlocks(Front(stack), lineNo, colNo + 1)
    ELSE <<>>

\* lexical_analyzer(inp): [toks, exc]
lexical_analyzer(lines) ==
    LET r == LexLines(lines, 0, <<0>>, <<>>)
        lineNo == IF Len(lines) = 0 THEN 0 ELSE r.lineNo
    IN IF r.exc.type # "none" THEN [toks |-> <<>>, exc |-> r.exc]
       ELSE [toks |-> r.toks \o CloseBlocks(r.stack, lineNo, r.colNo)
                             \o <<WordToken("EOF", "$", lineNo + 1, -1)>>,
             exc |-> NoExc]

-----------------------------------------------------------------------------
(* Numbers: int and float, a float being the rational n/d *)

PyFloat(n, d) == [cls |-> "float", n |-> n, d |-> d]

Abs(n) == IF n < 0 THEN 0 - n ELSE n

RECURSIVE Gcd(_, _)
Gcd(a, b) == IF b = 0 THEN a ELSE Gcd(b, a % b)

\* the float n/d in lowest terms with d > 0 (d # 0)
NormFlt(n, d) ==
    LET g == Gcd(Abs(n), Abs(d))
        sgn == IF d < 0 THEN 0 - 1 ELSE 1
    IN PyFloat(sgn * (n \div g), sgn * (d \div g))

RECURSIVE Pow10(_)
Pow10(k) == IF k = 0 THEN 1 ELSE 10 * Pow10(k - 1)

\* float(atr) of a number-shaped word
float(word) ==
    LET s == Spell[word]
        neg == Len(s) >= 1 /\ s[1] = "-"
        from == IF neg THEN 2 ELSE 1
        dot == DotAt(s)
        whole == DigitsValue(s, from, IF dot = 0 THEN Len(s) ELSE dot - 1)
        frac == IF dot = 0 THEN 0 ELSE DigitsValue(s, dot + 1, Len(s))
        scale == IF dot = 0 THEN 1 ELSE Pow10(Len(s) - dot)
        n == whole * scale + frac
    IN NormFlt(IF neg THEN 0 - n ELSE n, scale)

IsNumber(x) == x.cls \in {"int", "float"}

NumN(x) == IF x.cls = "int" THEN x.v ELSE x.n

NumD(x) == IF x.cls = "int" THEN 1 ELSE x.d

\* the result of an evaluation: a value, or the exception it raised
EvOk(v) == [val |-> v, exc |-> "none"]

EvErr(type) == [val |-> NoneV, exc |-> type]

\* left op right for the arithmetic operators of ExpressionNode.evaluate
Arith(op, l, r) ==
    IF ~(IsNumber(l) /\ IsNumber(r)) THEN EvErr("TypeError")
    ELSE IF op = "/" THEN
        IF NumN(r) = 0 THEN EvErr("ZeroDivisionError")
        ELSE EvOk(NormFlt(NumN(l) * NumD(r), NumD(l) * NumN(r)))
    ELSE LET n == CASE op = "+" -> NumN(l) * NumD(r) + NumN(r) * NumD(l)
                    [] op = "-" -> NumN(l) * NumD(r) - NumN(r) * NumD(l)
                    [] op = "*" -> NumN(l) * NumN(r)
             d == NumD(l) * NumD(r)
         IN IF l.cls = "int" /\ r.cls = "int" THEN EvOk(PyInt(n)) ELSE EvOk(NormFlt(n, d))

\* left op right for the relational operators: a bool, or TypeError
Compare(op, l, r) ==
    IF op \in {"==", "!="} THEN
        LET eq == IF IsNumber(l) /\ IsNumber(r)
                  THEN NumN(l) * NumD(r) = NumN(r) * NumD(l)
                  ELSE l = r
        IN EvOk(PyBool(IF op = "==" THEN eq ELSE ~eq))
    ELSE IF ~(IsNumber(l) /\ IsNumber(r)) THEN EvErr("TypeError")
    ELSE LET a == NumN(l) * NumD(r)
             b == NumN(r) * NumD(l)
         IN EvOk(PyBool(CASE op = "<" -> a < b [] op = "<=" -> a <= b
                        [] op = ">" -> a > b [] op = ">=" -> a >= b))

-----------------------------------------------------------------------------
(* config.py: symbolTable, functionTable and fetchSymbolTable.  A dict is  *)
(* a function on its keys; a key is a str, or an object held by identity. *)

EmptyDict == [k \in {} |-> NoneV]

\* d[key] = value
DictPut(d, key, value) == [k \in DOMAIN d \cup {key} |-> IF k = key THEN value ELSE d[k]]

\* an object used as a dict key: hashed by identity, id tells apart equal-looking objects
ObjectKey(obj, id) == [cls |-> "object", id |-> id, obj |-> obj]

fetchSymbolTable(sym, name) ==
    IF name \in DOMAIN sym THEN EvOk(sym[name]) ELSE EvErr("KeyError")

-----------------------------------------------------------------------------
(* AST.py *)

ASTNode(nodeType, body) == [cls |-> "ASTNode", nodeType |-> nodeType, body |-> body]

\* ASTNode.add(item): None is not added
add(node, item) == IF IsNone(item) THEN node ELSE [node EXCEPT !.body = Append(@, item)]

\* str.isidentifier() of an operator text
isidentifier(word) == IsIdentifierShaped(word)

\* ExpressionNode(operator), operator a str
ExpressionNode(operator, left, right) ==
    [cls |-> "ExpressionNode",
     nodeType |-> IF isdigit(operator) THEN "CONSTANT"
                  ELSE IF isidentifier(operator) THEN "IDENTIFIER"
                  ELSE "OPERATOR",
     value |-> operator, left |-> left, right |-> right]

\* left and right are Tokens or nodes here, never str: they are kept as they are
expression_tree_builder(operator, left, right) == ExpressionNode(operator, left, right)

BinaryExpressionNode(operator, left, right) ==
    [cls |-> "BinaryExpressionNode", nodeType |-> "CONDITION",
     operator |-> operator, left |-> left, right |-> right]

IfNode(test, consequent, elifs, alternate) ==
    [cls |-> "IfNode", nodeType |-> "IF_COND", test |-> test, consequent |-> consequent,
     elifs |-> elifs, alternate |-> alternate]

WhileNode(test, consequent) ==
    [cls |-> "WhileNode", nodeType |-> "WHILE_LOOP", test |-> test, consequent |-> consequent]

ParamsNode(params) == [cls |-> "ParamsNode", nodeType |-> "PARAM", params |-> params]

FunctionDefNode(identifier, params, body, ret) ==
    [cls |-> "FunctionDefNode", nodeType |-> "FUNC_DEF", identifier |-> identifier,
     params |-> params, body |-> body, ret |-> ret]

\* funcName is a str (function_call) or the Token itself (factor)
FunctionCallNode(funcName, args) ==
    [cls |-> "FunctionCallNode", nodeType |-> "FUNC_CALL", funcName |-> funcName, args |-> args]

ForNode(loopVar, iterableExpr, consequent) ==
    [cls |-> "ForNode", nodeType |-> "FOR_LOOP", loopVar |-> loopVar,
     iterableExpr |-> iterableExpr, consequent |-> consequent]

\* bool(x) of an object: None and the empty list are false
Truthy(x) == ~(x.cls = "None" \/ (x.cls = "list" /\ x.items = <<>>))

RECURSIVE evaluate(_, _)
\* Token.evaluate and ExpressionNode.evaluate against the symbol table sym
evaluate(node, sym) ==
    IF node.cls = "Token" THEN
        IF node.tokenType = "IDENTIFIER" THEN fetchSymbolTable(sym, node.atr)
        ELSE IF IntParses(node.atr.s) THEN EvOk(PyInt(int(node.atr.s)))
        ELSE EvErr("ValueError")
    ELSE IF node.cls = "ExpressionNode" THEN
        IF node.nodeType = "CONSTANT" THEN EvOk(PyInt(int(node.value)))
        ELSE IF node.nodeType = "IDENTIFIER" THEN fetchSymbolTable(sym, PyStr(node.value))
        ELSE IF IsNone(node.left) \/ IsNone(node.right) THEN EvErr("AttributeError")
        ELSE
          Only([l \in {evaluate(node.left, sym)} |->
            IF l.exc # "none" THEN l ELSE
          Only([r \in {evaluate(node.right, sym)} |->
            IF r.exc # "none" THEN r
            ELSE IF node.value \in {"+", "-", "*", "/"} THEN Arith(node.value, l.val, r.val)
            ELSE IF node.value \in {">", "<", "=="} THEN Compare(node.value, l.val, r.val)
            ELSE EvErr("NotImplementedError")])])
    ELSE EvErr("AttributeError")

\* BinaryExpressionNode.evaluate
evaluate_condition(node, sym) ==
    IF IsNone(node.left) \/ IsNone(node.right) THEN EvErr("AttributeError")
    ELSE
      Only([l \in {evaluate(node.left, sym)} |->
        IF l.exc # "none" THEN l ELSE
      Only([r \in {evaluate(node.right, sym)} |->
        IF r.exc # "none" THEN r
        ELSE IF node.operator.value \in RELOP
        THEN Compare(node.operator.value, l.val, r.val)
        ELSE EvErr("ValueError")])])

-----------------------------------------------------------------------------
(* parser.py: class Parser.  The parser object p holds pos, whether        *)
(* lookahead is None, should_evaluate, the two tables it writes, what it   *)
(* printed and the exception it raised.  Every rule takes p and returns    *)
(* [p, node]; a rule given a parser that has raised returns it unchanged.  *)
(* Two history fields record what the rules did to the symbol table: tests *)
(* lists the conditions the parser evaluated and writes the assignments    *)
(* that stored a value, each by the source line it stands on.              *)

MaxIterations == 100

R(p, node) == [p |-> p, node |-> node]

Raised(p) == p.exc.type # "none"

Throw(p, type) == [p EXCEPT !.exc = Raise(type)]

Log(p, line) == [p EXCEPT !.log = Append(@, line)]

\* history: the condition of the if, elif or while on source line lineNo evaluated to result
Tested(p, lineNo, result) ==
    [p EXCEPT !.tests = Append(@, [lineNo |-> lineNo, result |-> result])]

\* history: the assignment on source line lineNo wrote the symbol table
Wrote(p, lineNo) == [p EXCEPT !.writes = Append(@, lineNo)]

\* self.lookahead
lookahead(p) == IF p.none THEN NoneV ELSE tokens[p.pos + 1]

\* self.tokens[self.pos + 1].atr == atr, the index being in range
PeekAtrIs(p, atr) == p.pos + 1 < Len(tokens) /\ tokens[p.pos + 2].atr = PyStr(atr)

match(p) ==
    IF p.pos + 1 < Len(tokens) THEN [p EXCEPT !.pos = @ + 1] ELSE [p EXCEPT !.none = TRUE]

check(p, key, value) ==
    IF p.none THEN FALSE
    ELSE IF key = "tokenType" THEN lookahead(p).tokenType = value
    ELSE IF key = "atr" THEN lookahead(p).atr = PyStr(value)
    ELSE FALSE

\* raise GrammarError("Invalid syntax", self.lookahead, expected): pos is the index of
\* the token carried, counted from 1, and 0 when lookahead is None
error_grammar(p, expected) ==
    [p EXCEPT !.exc = [type |-> "GrammarError",
                       pos |-> IF p.none THEN 0 ELSE p.pos + 1,
                       expected |-> expected]]

\* consume() without criteria
consume_any(p) == R(match(p), lookahead(p))

consume(p, key, value) ==
    IF ~check(p, key, value) THEN R(p, NoneV) ELSE R(match(p), lookahead(p))

consume_error(p, key, value, message) ==
    IF Raised(p) THEN R(p, NoneV)
    ELSE IF key = "tokenType" /\ value = "BLOCK_END" /\ check(p, "tokenType", "EOF")
    THEN R(p, NoneV)
    ELSE LET temp == consume(p, key, value)
         IN IF IsNone(temp.node) THEN R(error_grammar(p, message), NoneV) ELSE temp

\* the optional consume(tokenType=X) of a rule, which passes a raised parser through
consume_if(p, key, value) == IF Raised(p) THEN p ELSE consume(p, key, value).p

\* consume_error(...) called as a statement: the parser it leaves
expect(p, key, value, message) == consume_error(p, key, value, message).p

\* self.should_evaluate = flag
SetFlag(p, flag) == IF Raised(p) THEN p ELSE [p EXCEPT !.should_evaluate = flag]

RECURSIVE statement_list_loop(_, _, _), statement(_), assignment(_), expression(_),
          expression_loop(_, _), term(_), term_loop(_, _), factor(_), if_statement(_),
          elif_loop(_, _, _, _), condition(_), while_loop(_), function_def(_),
          function_body(_, _), function_call(_), arg_list(_), arg_loop(_, _, _), for_loop(_)

\* the while loop of statement_list
statement_list_loop(p, stmnt_list, iteration_count) ==
    IF Raised(p) THEN R(p, NoneV)
    ELSE IF check(p, "tokenType", "EOF") \/ check(p, "tokenType", "BLOCK_END") \/ p.none
    THEN R(p, stmnt_list)
    ELSE IF iteration_count + 1 > MaxIterations
    THEN R(Log(p, "ERROR: Too many iterations in statement_list"), stmnt_list)
    ELSE
      Only([stmt \in {statement(p)} |->
        IF Raised(stmt.p) THEN R(stmt.p, NoneV) ELSE
      Only([list1 \in {IF Truthy(stmt.node) THEN add(stmnt_list, stmt.node) ELSE stmnt_list} |->
      Only([p1 \in {consume_if(stmt.p, "tokenType", "NEWLINE")} |->
        IF check(p1, "tokenType", "BLOCK_END") \/ check(p1, "tokenType", "EOF")
        THEN R(p1, list1)
        ELSE IF IsNone(stmt.node) THEN
            IF check(p1, "tokenType", "NEWLINE")
            THEN statement_list_loop(consume(p1, "tokenType", "NEWLINE").p, list1,
                                     iteration_count + 1)
            ELSE R(Log(p1, "[WARNING] No statement parsed and can't advance"), list1)
        ELSE statement_list_loop(p1, list1, iteration_count + 1)])])])

statement_list(p) == statement_list_loop(p, ASTNode("STATEMENT_LIST", <<>>), 0)

\* stmnt = ASTNode(AST.STATEMENT); stmnt.add(rule()); return stmnt
AsStatement(r) ==
    IF Raised(r.p) THEN R(r.p, NoneV) ELSE R(r.p, add(ASTNode("STATEMENT", <<>>), r.node))

statement(p) ==
    IF Raised(p) THEN R(p, NoneV)
    ELSE IF check(p, "tokenType", "IDENTIFIER") THEN
        IF PeekAtrIs(p, "=") THEN AsStatement(assignment(p))
        ELSE IF PeekAtrIs(p, "(") THEN AsStatement(function_call(p))
        ELSE R(error_grammar(p, ""), NoneV)
    ELSE IF check(p, "atr", "if") THEN AsStatement(if_statement(p))
    ELSE IF check(p, "atr", "while") THEN AsStatement(while_loop(p))
    ELSE IF check(p, "atr", "def") THEN AsStatement(function_def(p))
    ELSE IF check(p, "atr", "for") THEN AsStatement(for_loop(p))
    ELSE R(p, NoneV)

\* the value the symbol table write that ends assignment stores
AssignmentValue(right, sym) ==
    IF right.cls = "Token" THEN
        IF right.tokenType = "CONSTANT" THEN
            IF ~HasDot(right.atr.s) THEN
                IF IntParses(right.atr.s) THEN EvOk(PyInt(int(right.atr.s)))
                ELSE EvErr("ValueError")
            ELSE EvOk(float(right.atr.s))
        ELSE IF right.atr \in DOMAIN sym THEN EvOk(sym[right.atr]) ELSE EvErr("KeyError")
    ELSE IF right.cls = "FunctionCallNode" THEN EvOk(right)
    ELSE evaluate(right, sym)

assignment(p) ==
    Only([left \in {consume_error(p, "tokenType", "IDENTIFIER", "IDENTIFIER")} |->
    Only([p1 \in {expect(left.p, "atr", "=", "=")} |->
      IF Raised(p1) THEN R(p1, NoneV)
      ELSE IF check(p1, "tokenType", "IDENTIFIER") /\ p1.pos + 1 >= Len(tokens)
      THEN R(Throw(p1, "IndexError"), NoneV) ELSE
    Only([right \in {IF check(p1, "tokenType", "IDENTIFIER") /\ PeekAtrIs(p1, "(")
                     THEN function_call(p1)
                     ELSE expression(p1)} |->
      IF Raised(right.p) THEN R(right.p, NoneV) ELSE
    Only([root \in {ASTNode("ASSIGNMENT", <<ExpressionNode("=", left.node, right.node)>>)} |->
      IF ~right.p.should_evaluate THEN R(right.p, root) ELSE
    Only([v \in {AssignmentValue(right.node, right.p.sym)} |->
      IF v.exc # "none" THEN R(Throw(right.p, v.exc), NoneV)
      ELSE R(Wrote([right.p EXCEPT !.sym = DictPut(@, left.node.atr, v.val)],
                   left.node.lineNo), root)])])])])])

\* expression_loop reading the right operand of '+' and '-' with factor() instead of term()
expression_loop_tight(p, root) ==
    IF Raised(p) THEN R(p, NoneV)
    ELSE IF p.none THEN R(Throw(p, "AttributeError"), NoneV)
    ELSE IF lookahead(p).atr \in {PyStr("+"), PyStr("-")} THEN
        Only([op \in {consume_any(p)} |->
        Only([right \in {factor(op.p)} |->
          IF Raised(right.p) THEN R(right.p, NoneV)
          ELSE expression_loop(right.p,
                               expression_tree_builder(op.node.atr.s, root, right.node))])])
    ELSE R(p, root)

\* the while self.lookahead.atr in ('+', '-') loop
expression_loop(p, root) ==
    IF Raised(p) THEN R(p, NoneV)
    ELSE IF p.none THEN R(Throw(p, "AttributeError"), NoneV)
    ELSE IF lookahead(p).atr \in {PyStr("+"), PyStr("-")} THEN
        Only([op \in {consume_any(p)} |->
        Only([right \in {term(op.p)} |->
          IF Raised(right.p) THEN R(right.p, NoneV)
          ELSE expression_loop(right.p,
                               expression_tree_builder(op.node.atr.s, root, right.node))])])
    ELSE R(p, root)

expression(p) ==
    IF Raised(p) THEN R(p, NoneV)
    ELSE Only([root \in {term(p)} |-> expression_loop(root.p, root.node)])

\* the while self.lookahead.atr in ('*', '/') loop
term_loop(p, root) ==
    IF Raised(p) THEN R(p, NoneV)
    ELSE IF p.none THEN R(Throw(p, "AttributeError"), NoneV)
    ELSE IF lookahead(p).atr \in {PyStr("*"), PyStr("/")} THEN
        Only([op \in {consume_any(p)} |->
        Only([right \in {factor(op.p)} |->
          IF Raised(right.p) THEN R(right.p, NoneV)
          ELSE term_loop(right.p,
                         expression_tree_builder(op.node.atr.s, root, right.node))])])
    ELSE R(p, root)

term(p) ==
    IF Raised(p) THEN R(p, NoneV)
    ELSE Only([root \in {factor(p)} |-> term_loop(root.p, root.node)])

factor(p) ==
    IF Raised(p) THEN R(p, NoneV)
    ELSE IF p.none THEN R(Throw(p, "AttributeError"), NoneV)
    ELSE
      Only([temp \in {consume_any(p)} |->
        IF temp.node.atr \in DOMAIN temp.p.ft THEN
            Only([args \in {arg_list(consume(temp.p, "atr", "(").p)} |->
            Only([p1 \in {consume_if(args.p, "atr", ")")} |->
              IF Raised(p1) THEN R(p1, NoneV)
              ELSE R(p1, FunctionCallNode(temp.node, args.node))])])
        ELSE IF temp.node.atr = PyStr("(") THEN
            Only([inner \in {expression(temp.p)} |->
              R(consume_if(inner.p, "atr", ")"), inner.node)])
        ELSE IF temp.node.tokenType \in {"CONSTANT", "IDENTIFIER"} THEN temp
        ELSE R(error_grammar(temp.p, "CONSTANT, IDENTIFIER, expression"), NoneV)])

\* relop(): an ExpressionNode holding the operator text
relop(p) ==
    IF Raised(p) THEN R(p, NoneV)
    ELSE Only([token \in {consume(p, "tokenType", "RELOP")} |->
           IF IsNone(token.node)
           THEN R(error_grammar(p, "Relational operator (==, !=, <, <=, >, >=)"), NoneV)
           ELSE R(token.p, ExpressionNode(token.node.atr.s, NoneV, NoneV))])

condition(p) ==
    Only([left \in {expression(p)} |->
    Only([op \in {relop(left.p)} |->
    Only([right \in {expression(op.p)} |->
      IF Raised(right.p) THEN R(right.p, NoneV)
      ELSE R(right.p, BinaryExpressionNode(op.node, left.node, right.node))])])])

\* if self.consume(atr='('): condition(); consume_error(atr=')')  else: condition()
parenthesised_condition(p) ==
    IF Raised(p) THEN R(p, NoneV)
    ELSE Only([open \in {consume(p, "atr", "(")} |->
         Only([test \in {condition(open.p)} |->
           IF IsNone(open.node) THEN test
           ELSE Only([p1 \in {expect(test.p, "atr", ")", ")")} |->
                  IF Raised(p1) THEN R(p1, NoneV) ELSE R(p1, test.node)])])])

\* consume_error(atr=':'); consume(NEWLINE); consume_error(BLOCK_BEGIN, message='INDENTATION')
block_header(p) ==
    expect(consume_if(expect(p, "atr", ":", ":"), "tokenType", "NEWLINE"),
           "tokenType", "BLOCK_BEGIN", "INDENTATION")

\* if self.check(tokenType=BLOCK_END): self.consume(tokenType=BLOCK_END)
block_end(p) == consume_if(p, "tokenType", "BLOCK_END")

\* the should_evaluate flag while the consequent of an if is parsed
IfConsequentFlag(saved_flag, condition_result) == condition_result

\* the should_evaluate flag while an elif block is parsed
ElifFlag(saved_flag, any_branch_executed, elif_result) ==
    saved_flag /\ (~any_branch_executed /\ elif_result)

\* the should_evaluate flag while the else block is parsed
ElseFlag(saved_flag, any_branch_executed) == saved_flag /\ ~any_branch_executed

\* the should_evaluate flag an if statement leaves behind
IfExitFlag(saved_flag) == TRUE

\* the while self.check(atr='elif') loop: [p, elifs, any_branch_executed]
elif_loop(p, saved_flag, any_branch_executed, elifs) ==
    IF Raised(p) \/ ~check(p, "atr", "elif")
    THEN [p |-> p, elifs |-> elifs, any_branch_executed |-> any_branch_executed]
    ELSE
      Only([elif_cond \in {parenthesised_condition(consume(p, "atr", "elif").p)} |->
        IF Raised(elif_cond.p)
        THEN [p |-> elif_cond.p, elifs |-> elifs, any_branch_executed |-> any_branch_executed]
        ELSE
      Only([elif_result \in {evaluate_condition(elif_cond.node, elif_cond.p.sym)} |->
        IF elif_result.exc # "none"
        THEN [p |-> Throw(elif_cond.p, elif_result.exc), elifs |-> elifs,
              any_branch_executed |-> any_branch_executed]
        ELSE
      Only([elif_block \in {statement_list(block_header(
               SetFlag(Tested(elif_cond.p, lookahead(p).lineNo, elif_result.val.b),
                       ElifFlag(saved_flag, any_branch_executed, elif_result.val.b))))} |->
        elif_loop(block_end(elif_block.p), saved_flag,
                  any_branch_executed \/ elif_result.val.b,
                  Append(elifs, <<elif_cond.node, elif_block.node>>))])])])

\* the else clause of if_statement: [p, node], node the alternate
else_clause(p, saved_flag, any_branch_executed) ==
    IF Raised(p) \/ ~check(p, "atr", "else") THEN R(p, EmptyList)
    ELSE Only([alternate \in {statement_list(
                  SetFlag(block_header(consume(p, "atr", "else").p),
                          ElseFlag(saved_flag, any_branch_executed)))} |->
           R(block_end(alternate.p), alternate.node)])

if_statement(p) ==
    Only([test \in {parenthesised_condition(expect(p, "atr", "if", "if"))} |->
      IF Raised(test.p) THEN R(test.p, NoneV) ELSE
    Only([condition_result \in {evaluate_condition(test.node, test.p.sym)} |->
      IF condition_result.exc # "none"
      THEN R(Throw(test.p, condition_result.exc), NoneV) ELSE
    Only([saved_flag \in {test.p.should_evaluate} |->
    Only([consequent \in {statement_list(
             SetFlag(block_header(SetFlag(Tested(test.p, lookahead(p).lineNo,
                                                 condition_result.val.b),
                                          saved_flag /\ condition_result.val.b)),
                     IfConsequentFlag(saved_flag, condition_result.val.b)))} |->
    Only([elifs \in {elif_loop(block_end(consequent.p), saved_flag,
                               condition_result.val.b, <<>>)} |->
    Only([alternate \in {else_clause(SetFlag(elifs.p, ~condition_result.val.b), saved_flag,
                                     elifs.any_branch_executed)} |->
      IF Raised(alternate.p) THEN R(alternate.p, NoneV)
      ELSE R(SetFlag(alternate.p, IfExitFlag(saved_flag)),
             IfNode(test.node, consequent.node, elifs.elifs, alternate.node))])])])])])])

\* the should_evaluate flag while the body of a while loop is parsed
WhileBodyFlag(saved_flag, condition_result) == ~condition_result

while_loop(p) ==
    Only([test \in {parenthesised_condition(expect(p, "atr", "while", "while"))} |->
      IF Raised(test.p) THEN R(test.p, NoneV) ELSE
    Only([condition_result \in {evaluate_condition(test.node, test.p.sym)} |->
      IF condition_result.exc # "none"
      THEN R(Throw(test.p, condition_result.exc), NoneV) ELSE
    Only([saved_flag \in {test.p.should_evaluate} |->
    Only([consequent \in {statement_list(
             SetFlag(block_header(SetFlag(Tested(test.p, lookahead(p).lineNo,
                                                 condition_result.val.b),
                                          saved_flag /\ condition_result.val.b)),
                     WhileBodyFlag(saved_flag, condition_result.val.b)))} |->
      IF Raised(consequent.p) THEN R(consequent.p, NoneV)
      ELSE R(consequent.p, WhileNode(test.node, consequent.node))])])])])

RECURSIVE param_loop(_, _, _)
\* the while currId loop of param_list: [p, params]
param_loop(p, currId, params) ==
    IF ~Truthy(currId) THEN R(p, params)
    ELSE Only([comma \in {consume(p, "atr", ",")} |->
           IF IsNone(comma.node)
           THEN R(p, Append(params, Token("IDENTIFIER", currId.atr, -1, -1)))
           ELSE Only([next \in {consume(comma.p, "tokenType", "IDENTIFIER")} |->
                  param_loop(next.p, next.node,
                             Append(params, Token("IDENTIFIER", currId.atr, -1, -1)))])])

param_list(p) ==
    IF Raised(p) THEN R(p, NoneV)
    ELSE Only([currId \in {consume(p, "tokenType", "IDENTIFIER")} |->
         Only([lParams \in {param_loop(currId.p, currId.node, <<>>)} |->
           R(lParams.p, ParamsNode(lParams.node))])])

RECURSIVE ParamsInit(_, _, _, _)
\* for param in parameters.params: symbolTable[param] = 0, the key being the Token object
ParamsInit(sym, params, k, at) ==
    IF k > Len(params) THEN sym
    ELSE ParamsInit(DictPut(sym, ObjectKey(params[k], <<at, k>>), PyInt(0)), params, k + 1, at)

return_statement(p) == expression(expect(p, "atr", "return", "return"))

\* while not check(atr='return') and not check(BLOCK_END): body = self.statement_list()
\* A pass that consumes no token repeats for ever: the parser hangs.
function_body(p, body) ==
    IF Raised(p) THEN R(p, NoneV)
    ELSE IF check(p, "atr", "return") \/ check(p, "tokenType", "BLOCK_END") THEN R(p, body)
    ELSE Only([r \in {statement_list(p)} |->
           IF Raised(r.p) THEN R(r.p, NoneV)
           ELSE IF r.p.pos = p.pos /\ r.p.none = p.none THEN R(Throw(r.p, "Hang"), NoneV)
           ELSE function_body(r.p, r.node)])

\* if self.check(atr='return'): ret = ASTNode(AST.RETURN) ... consume_error(NEWLINE)
return_clause(p) ==
    IF Raised(p) \/ ~check(p, "atr", "return") THEN R(p, NoneV)
    ELSE Only([return_stmt \in {return_statement(p)} |->
           R(expect(return_stmt.p, "tokenType", "NEWLINE", "NEWLINE"),
             add(ASTNode("RETURN", <<>>), return_stmt.node))])

function_def(p) ==
    Only([identifier \in {consume_error(expect(p, "atr", "def", "def"),
                                        "tokenType", "IDENTIFIER", "IDENTIFIER")} |->
    Only([parameters \in {param_list(expect(identifier.p, "atr", "(", "("))} |->
      IF Raised(parameters.p) THEN R(parameters.p, NoneV) ELSE
    Only([p1 \in {[parameters.p EXCEPT
                     !.sym = ParamsInit(@, parameters.node.params, 1, parameters.p.pos)]} |->
    Only([body \in {function_body(
             expect(expect(expect(expect(p1, "atr", ")", ")"),
                                  "tokenType", "SEMICOLON", "SEMICOLON"),
                           "tokenType", "NEWLINE", "NEWLINE"),
                    "tokenType", "BLOCK_BEGIN", "INDENTATION"), NoneV)} |->
    Only([ret \in {return_clause(body.p)} |->
    Only([p2 \in {expect(ret.p, "tokenType", "BLOCK_END", "BLOCK_END")} |->
      IF Raised(p2) THEN R(p2, NoneV)
      ELSE R([p2 EXCEPT !.ft = DictPut(@, identifier.node.atr,
                                       [params |-> parameters.node, return |-> ret.node])],
             FunctionDefNode(identifier.node.atr, parameters.node, body.node,
                             ret.node))])])])])])])

\* int(atr), and float(atr) on ValueError
NumberOf(word) == IF IntParses(word) THEN PyInt(int(word)) ELSE float(word)

\* what one pass of the arg_list loop appends to args: [val, exc], val the new args
arg_append(args, currExp, sym) ==
    IF currExp.cls = "Token" THEN
        IF currExp.tokenType = "IDENTIFIER" THEN EvOk(Append(args, currExp))
        ELSE IF currExp.tokenType = "CONSTANT"
        THEN EvOk(Append(args, Token("CONSTANT", NumberOf(currExp.atr.s), -1, -1)))
        ELSE EvOk(args)
    ELSE IF currExp.cls = "ExpressionNode" THEN
        Only([ev \in {evaluate(currExp, sym)} |->
          IF ev.exc # "none" THEN ev ELSE EvOk(Append(args, ev.val))])
    ELSE EvOk(args)

\* the while currExp loop of arg_list: [p, args]
arg_loop(p, currExp, args) ==
    IF Raised(p) THEN R(p, <<>>)
    ELSE IF ~Truthy(currExp) THEN R(p, args)
    ELSE
      Only([args1 \in {arg_append(args, currExp, p.sym)} |->
        IF args1.exc # "none" THEN R(Throw(p, args1.exc), <<>>) ELSE
      Only([comma \in {consume(p, "atr", ",")} |->
        IF IsNone(comma.node) THEN R(p, args1.val) ELSE
      Only([ident \in {consume(comma.p, "tokenType", "IDENTIFIER")} |->
        IF ~IsNone(ident.node) THEN arg_loop(ident.p, ident.node, args1.val)
        ELSE Only([const \in {consume(comma.p, "tokenType", "CONSTANT")} |->
               arg_loop(const.p, const.node, args1.val)])])])])

arg_list(p) ==
    IF Raised(p) THEN R(p, <<>>)
    ELSE Only([currExp \in {expression(p)} |-> arg_loop(currExp.p, currExp.node, <<>>)])

function_call(p) ==
    Only([name \in {consume_error(p, "tokenType", "IDENTIFIER", "IDENTIFIER")} |->
    Only([p1 \in {expect(name.p, "atr", "(", "(")} |->
    Only([args \in {IF Raised(p1) \/ check(p1, "atr", ")") THEN R(p1, <<>>)
                    ELSE arg_list(p1)} |->
    Only([p2 \in {expect(args.p, "atr", ")", ")")} |->
      IF Raised(p2) THEN R(p2, NoneV)
      ELSE IF name.node.atr \in DOMAIN p2.ft
              \/ name.node.atr \in {PyStr("print"), PyStr("range")}
      THEN R(p2, FunctionCallNode(name.node.atr, args.node))
      ELSE R(error_grammar(p2, "Function " \o name.node.atr.s \o " is not defined"),
             NoneV)])])])])

\* start, stop, step of for_loop from the arguments of the iterable
range_bounds(args) ==
    IF Len(args) = 1 THEN <<PyInt(0), args[1], PyInt(1)>>
    ELSE IF Len(args) = 2 THEN <<args[1], args[2], PyInt(1)>>
    ELSE IF Len(args) = 3 THEN <<args[1], args[2], args[3]>>
    ELSE <<PyInt(0), PyInt(0), PyInt(0)>>

for_loop(p) ==
    Only([p1 \in {expect(p, "atr", "for", "for")} |->
      IF Raised(p1) THEN R(p1, NoneV) ELSE
    Only([loopVar \in {consume(p1, "tokenType", "IDENTIFIER")} |->
    Only([iterable \in {function_call(consume_if(loopVar.p, "atr", "in"))} |->
      IF Raised(iterable.p) THEN R(iterable.p, NoneV)
      ELSE IF IsNone(loopVar.node) THEN R(Throw(iterable.p, "AttributeError"), NoneV) ELSE
    Only([iterableExpr \in {range_bounds(iterable.node.args)} |->
    Only([consequent \in {statement_list(
             expect(expect(expect(
                 [iterable.p EXCEPT !.sym = DictPut(@, loopVar.node.atr, iterableExpr[1])],
                 "tokenType", "SEMICOLON", "SEMICOLON"),
                 "tokenType", "NEWLINE", "NEWLINE"),
                 "tokenType", "BLOCK_BEGIN", "BLOCK_BEGIN"))} |->
      IF Raised(consequent.p) THEN R(consequent.p, NoneV)
      ELSE R(consequent.p,
             ForNode(loopVar.node, iterableExpr, consequent.node))])])])])])

\* Parser(listOfTokens): __init__ and program(); node is self.tree
Parser(sym, ft) ==
    Only([r \in {statement_list([pos |-> 0, none |-> FALSE, should_evaluate |-> TRUE,
                                 sym |-> sym, ft |-> ft, log |-> <<>>, exc |-> NoExc,
                                 tests |-> <<>>, writes |-> <<>>])} |->
      IF Raised(r.p) THEN R(r.p, NoneV)
      ELSE R(r.p, add(ASTNode("PROGRAM", <<>>), r.node))])

-----------------------------------------------------------------------------
(* intermediate_code_generation.py: class TACGenerator.  The generator     *)
(* object g holds instructions, temp_count, labelCount, labelPresent and   *)
(* the exception it raised; ft is the function table the parser left.      *)

TACLine(op, arg1, arg2, result, label) ==
    [op |-> op, arg1 |-> arg1, arg2 |-> arg2, result |-> result, label |-> label]

GRaised(g) == g.exc.type # "none"

GThrow(g, type) == [g EXCEPT !.exc = Raise(type)]

\* new_temp(): the name; the counter is advanced by TempTaken
new_temp(g) == PyStr("T" \o ToString(g.temp_count))

TempTaken(g) == [g EXCEPT !.temp_count = @ + 1]

\* new_label() without a custom label
new_label(g) == PyStr("L" \o ToString(g.labelCount))

\* new_label() advancing both counters
LabelTaken_and_temp(g) == [g EXCEPT !.labelCount = @ + 1, !.temp_count = @ + 1]

\* self.labelCount += 1
LabelTaken(g) == [g EXCEPT !.labelCount = @ + 1]

emit(g, op, arg1, arg2, result, label) ==
    IF GRaised(g) THEN g
    ELSE IF ~IsNone(g.labelPresent)
    THEN [g EXCEPT !.instructions = Append(@, TACLine(op, arg1, arg2, result, g.labelPresent)),
                   !.labelPresent = NoneV]
    ELSE [g EXCEPT !.instructions = Append(@, TACLine(op, arg1, arg2, result, label))]

\* the characters of identifiers and numbers in ASCII order
AsciiOrder == <<"-", ".", "0", "1", "2", "3", "4", "5", "6", "7", "8", "9", "A", "I", "M", "N",
                "a", "b", "c", "d", "e", "f", "g", "h", "i", "j", "k", "l", "m", "n", "o",
                "p", "q", "r", "s", "t", "u", "v", "w", "x", "y", "z">>

Ord(c) == CHOOSE k \in 1..Len(AsciiOrder) : AsciiOrder[k] = c

RECURSIVE SeqGreater(_, _, _)
\* a[k..] > b[k..] in the order of str
SeqGreater(a, b, k) ==
    IF k > Len(a) THEN FALSE
    ELSE IF k > Len(b) THEN TRUE
    ELSE IF a[k] = b[k] THEN SeqGreater(a, b, k + 1)
    ELSE Ord(a[k]) > Ord(b[k])

\* a > b of two Python values: a bool, or TypeError
PyGreater(a, b) ==
    IF IsNumber(a) /\ IsNumber(b) THEN Compare(">", a, b)
    ELSE IF a.cls = "str" /\ b.cls = "str"
    THEN EvOk(PyBool(SeqGreater(Spell[a.s], Spell[b.s], 1)))
    ELSE EvErr("TypeError")

\* x.atr of a for-loop bound or a call argument: only a Token has it
HasAtr(x) == x.cls = "Token"

RECURSIVE handle_expression_one_temp(_, _)
\* handle_expression with new_temp() not advancing temp_count
handle_expression_one_temp(g, expr) ==
    IF GRaised(g) THEN [g |-> g, val |-> NoneV]
    ELSE IF expr.cls = "Token" THEN [g |-> g, val |-> expr.atr]
    ELSE IF expr.cls = "ExpressionNode" THEN
        IF expr.nodeType \in {"CONSTANT", "IDENTIFIER"} THEN [g |-> g, val |-> PyStr(expr.value)]
        ELSE Only([left \in {handle_expression_one_temp(g, expr.left)} |->
             Only([right \in {handle_expression_one_temp(left.g, expr.right)} |->
             Only([temp \in {new_temp(right.g)} |->
               [g |-> emit(right.g, expr.value, left.val, right.val, temp, NoneV),
                val |-> temp]])])])
    ELSE [g |-> g, val |-> NoneV]

RECURSIVE handle_expression(_, _)
\* [g, val]: val is the operand that names the value of expr
handle_expression(g, expr) ==
    IF GRaised(g) THEN [g |-> g, val |-> NoneV]
    ELSE IF expr.cls = "Token" THEN [g |-> g, val |-> expr.atr]
    ELSE IF expr.cls = "ExpressionNode" THEN
        IF expr.nodeType \in {"CONSTANT", "IDENTIFIER"} THEN [g |-> g, val |-> PyStr(expr.value)]
        ELSE Only([left \in {handle_expression(g, expr.left)} |->
             Only([right \in {handle_expression(left.g, expr.right)} |->
             Only([temp \in {new_temp(right.g)} |->
               [g |-> emit(TempTaken(right.g), expr.value, left.val, right.val, temp, NoneV),
                val |-> temp]])])])
    ELSE [g |-> g, val |-> NoneV]

\* op, left, right of a test lowered into a fresh temporary under label: [g, val]
handle_test(g, test, label) ==
    Only([left \in {handle_expression(g, test.left)} |->
    Only([right \in {handle_expression(left.g, test.right)} |->
    Only([temp \in {new_temp(right.g)} |->
      [g |-> emit(TempTaken(right.g), test.operator.value, left.val, right.val, temp, label),
       val |-> temp]])])])

RECURSIVE PushArgs(_, _, _), PopArgs(_, _), PrintArgs(_, _, _)
\* for arg in tree.args: self.emit('PUSH_ARG', arg.atr)
PushArgs(g, args, k) ==
    IF GRaised(g) \/ k > Len(args) THEN g
    ELSE IF ~HasAtr(args[k]) THEN GThrow(g, "AttributeError")
    ELSE PushArgs(emit(g, "PUSH_ARG", args[k].atr, NoneV, NoneV, NoneV), args, k + 1)

\* for _ in tree.args: self.emit('POP_ARG')
PopArgs(g, n) ==
    IF GRaised(g) \/ n = 0 THEN g
    ELSE PopArgs(emit(g, "POP_ARG", NoneV, NoneV, NoneV, NoneV), n - 1)

\* for arg in tree.args: self.emit('PRINT', arg)
PrintArgs(g, args, k) ==
    IF GRaised(g) \/ k > Len(args) THEN g
    ELSE PrintArgs(emit(g, "PRINT", args[k], NoneV, NoneV, NoneV), args, k + 1)

\* storeVar is the target of the assignment, or None
generate_func_call(g, ft, tree, storeVar) ==
    IF GRaised(g) THEN g
    ELSE IF tree.funcName \notin DOMAIN ft THEN g
    ELSE Only([g1 \in {PushArgs(g, tree.args, 1)} |->
         Only([tReturn \in {new_temp(g1)} |->
         Only([g2 \in {emit(TempTaken(g1), "LCALL", tree.funcName, tReturn, NoneV, NoneV)} |->
           PopArgs(IF Truthy(storeVar)
                   THEN emit(g2, "ASSIGN", tReturn, NoneV, storeVar, NoneV)
                   ELSE g2,
                   Len(tree.args))])])])

generate_assignment(g, ft, tree) ==
    IF GRaised(g) THEN g
    ELSE Only([expr \in {tree.body[1]} |->
         Only([target \in {handle_expression(g, expr.left)} |->
           IF expr.right.cls = "FunctionCallNode"
           THEN generate_func_call(target.g, ft, expr.right, target.val)
           ELSE Only([result \in {handle_expression(target.g, expr.right)} |->
                  emit(result.g, "ASSIGN", result.val, NoneV, target.val, NoneV)])])])

RECURSIVE generate(_, _, _), generate_elifs(_, _, _, _, _, _, _)

\* self.generate(block) of a consequent, an elif block or an alternate; the default
\* consequent [] has no nodeType
generate_block(g, ft, block) ==
    IF GRaised(g) THEN g
    ELSE IF block.cls = "list" THEN GThrow(g, "AttributeError")
    ELSE generate(g, ft, block)

\* lElifs: the labels of the elifs not yet lowered, k the index of the next elif
generate_elifs(g, ft, tree, lElifs, k, lFalse, lEnd) ==
    IF GRaised(g) \/ lElifs = <<>> THEN g
    ELSE
      Only([lCurr \in {IF Tail(lElifs) # <<>> THEN lElifs[2] ELSE lFalse} |->
      Only([tempElif \in {handle_test([g EXCEPT !.labelPresent = Head(lElifs)],
                                      tree.elifs[k][1], NoneV)} |->
      Only([g1 \in {generate_block(emit(tempElif.g, "IFZ", tempElif.val, lCurr, NoneV, NoneV),
                                   ft, tree.elifs[k][2])} |->
        generate_elifs(IF Truthy(tree.alternate)
                       THEN emit(g1, "GOTO", lEnd, NoneV, NoneV, NoneV)
                       ELSE g1,
                       ft, tree, Tail(lElifs), k + 1, lFalse, lEnd)])])])

RECURSIVE NewLabels(_, _)
\* for _ in tree.elifs: lElifs.append(self.new_label()): [g, labels]
NewLabels(g, n) ==
    IF n = 0 THEN [g |-> g, labels |-> <<>>]
    ELSE Only([r \in {NewLabels(LabelTaken(g), n - 1)} |->
           [g |-> r.g, labels |-> <<new_label(g)>> \o r.labels]])

generate_if(g, ft, tree) ==
    Only([lElifs \in {NewLabels(g, Len(tree.elifs))} |->
    Only([lFalse \in {new_label(lElifs.g)} |->
    Only([lEnd \in {IF Truthy(tree.alternate) THEN new_label(LabelTaken(lElifs.g))
                    ELSE lFalse} |->
    Only([tempIf \in {handle_test(IF Truthy(tree.alternate)
                                  THEN LabelTaken(LabelTaken(lElifs.g))
                                  ELSE LabelTaken(lElifs.g),
                                  tree.test, NoneV)} |->
    Only([g1 \in {emit(tempIf.g, "IFZ", tempIf.val,
                       IF tree.elifs # <<>> THEN lElifs.labels[1]
                       ELSE IF Truthy(tree.alternate) THEN lFalse ELSE lEnd,
                       NoneV, NoneV)} |->
    Only([g2 \in {emit(generate_block(g1, ft, tree.consequent),
                       "GOTO", lEnd, NoneV, NoneV, NoneV)} |->
    Only([g3 \in {generate_elifs(g2, ft, tree, lElifs.labels, 1, lFalse, lEnd)} |->
    Only([g4 \in {IF GRaised(g3) \/ ~Truthy(tree.alternate) THEN g3
                  ELSE generate_block([g3 EXCEPT !.labelPresent = lFalse], ft,
                                      tree.alternate)} |->
      IF GRaised(g4) THEN g4 ELSE [g4 EXCEPT !.labelPresent = lEnd]])])])])])])])])

generate_while(g, ft, tree) ==
    Only([lStart \in {IF ~IsNone(g.labelPresent) THEN g.labelPresent ELSE new_label(g)} |->
    Only([g1 \in {IF ~IsNone(g.labelPresent) THEN g ELSE LabelTaken(g)} |->
    Only([lEnd \in {new_label(g1)} |->
    Only([tempWhile \in {handle_test(LabelTaken(g1), tree.test, lStart)} |->
    Only([g2 \in {emit(tempWhile.g, "IFZ", tempWhile.val, lEnd, NoneV, NoneV)} |->
    Only([g3 \in {emit(generate_block(g2, ft, tree.consequent),
                       "GOTO", lStart, NoneV, NoneV, NoneV)} |->
      IF GRaised(g3) THEN g3 ELSE [g3 EXCEPT !.labelPresent = lEnd]])])])])])])

\* abs(step.atr) of a number
PyAbs(x) == IF x.cls = "int" THEN PyInt(Abs(x.v)) ELSE PyFloat(Abs(x.n), x.d)

\* the comparison that opens the loop: '>' if start.atr > stop.atr else '<='
for_test(g, tree, lStart) ==
    IF GRaised(g) THEN g
    ELSE IF ~HasAtr(tree.iterableExpr[2]) THEN GThrow(TempTaken(g), "AttributeError")
    ELSE Only([greater \in {PyGreater(tree.iterableExpr[1].atr, tree.iterableExpr[2].atr)} |->
           IF greater.exc # "none" THEN GThrow(TempTaken(g), greater.exc)
           ELSE emit(TempTaken(g), IF greater.val.b THEN ">" ELSE "<=",
                     tree.loopVar.atr, tree.iterableExpr[2].atr, new_temp(g), lStart)])

\* the increment that closes the loop: '+' if step.atr >= 0 else '-'
for_step(g, tree) ==
    IF GRaised(g) THEN g
    ELSE IF ~HasAtr(tree.iterableExpr[3]) THEN GThrow(TempTaken(g), "AttributeError")
    ELSE IF ~IsNumber(tree.iterableExpr[3].atr) THEN GThrow(TempTaken(g), "TypeError")
    ELSE emit(emit(TempTaken(g),
                   IF NumN(tree.iterableExpr[3].atr) >= 0 THEN "+" ELSE "-",
                   tree.loopVar.atr, PyAbs(tree.iterableExpr[3].atr), new_temp(g), NoneV),
              "ASSIGN", new_temp(g), NoneV, tree.loopVar.atr, NoneV)

generate_for(g, ft, tree) ==
    IF ~HasAtr(tree.iterableExpr[1]) \/ IsNone(tree.loopVar) THEN GThrow(g, "AttributeError")
    ELSE
      Only([g1 \in {emit(g, "ASSIGN", tree.iterableExpr[1].atr, NoneV, tree.loopVar.atr,
                         NoneV)} |->
      Only([lStart \in {new_label(g1)} |->
      Only([lEnd \in {new_label(LabelTaken(g1))} |->
      Only([tempFor \in {new_temp(LabelTaken(LabelTaken(g1)))} |->
      Only([g2 \in {emit(for_test(LabelTaken(LabelTaken(g1)), tree, lStart),
                         "IFZ", tempFor, lEnd, NoneV, NoneV)} |->
      Only([g3 \in {emit(for_step(generate_block(g2, ft, tree.consequent), tree),
                         "GOTO", lStart, NoneV, NoneV, NoneV)} |->
        IF GRaised(g3) THEN g3 ELSE [g3 EXCEPT !.labelPresent = lEnd]])])])])])])

generate(g, ft, tree) ==
    IF GRaised(g) THEN g
    ELSE IF tree.nodeType = "ASSIGNMENT" THEN generate_assignment(g, ft, tree)
    ELSE IF tree.nodeType = "IF_COND" THEN generate_if(g, ft, tree)
    ELSE IF tree.nodeType = "WHILE_LOOP" THEN generate_while(g, ft, tree)
    ELSE IF tree.nodeType = "FOR_LOOP" THEN generate_for(g, ft, tree)
    ELSE IF tree.cls = "FunctionCallNode" THEN
        IF tree.funcName = PyStr("print") THEN PrintArgs(g, tree.args, 1)
        ELSE generate_func_call(g, ft, tree, NoneV)
    ELSE IF tree.nodeType = "RETURN" THEN
        IF tree.body[1].cls = "ExpressionNode"
        THEN Only([tempVar \in {handle_expression(g, tree.body[1])} |->
               emit(tempVar.g, "RETURN", tempVar.val, NoneV, NoneV, NoneV)])
        ELSE IF tree.body[1].cls = "Token"
        THEN emit(g, "RETURN", tree.body[1].atr, NoneV, NoneV, NoneV)
        ELSE GThrow(g, "AttributeError")
    ELSE g

RECURSIVE generate_statements(_, _, _, _)
\* for stmt in stmts[k..]: self.generate(*stmt.body)
generate_statements(g, ft, stmts, k) ==
    IF GRaised(g) \/ k > Len(stmts) THEN g
    ELSE generate_statements(generate(g, ft, stmts[k].body[1]), ft, stmts, k + 1)

generate_statement_list(g, ft, tree) == generate_statements(g, ft, tree.body, 1)

generate_func_def(g, ft, tree) ==
    Only([g1 \in {emit([g EXCEPT !.labelPresent = tree.identifier], "BEGIN_FUNC",
                       NoneV, NoneV, NoneV, NoneV)} |->
    Only([g2 \in {IF Truthy(tree.body) THEN generate_statement_list(g1, ft, tree.body)
                  ELSE g1} |->
      emit(IF Truthy(tree.ret) THEN generate(g2, ft, tree.ret) ELSE g2,
           "END_FUNC", NoneV, NoneV, NoneV, NoneV)])])

RECURSIVE generate_func_defs(_, _, _, _)
\* the first loop of generate_func_first over stmts[k..]: the function definitions
generate_func_defs(g, ft, stmts, k) ==
    IF GRaised(g) \/ k > Len(stmts) THEN g
    ELSE IF stmts[k].body[1].nodeType = "FUNC_DEF"
    THEN generate_func_defs(generate_func_def(g, ft, stmts[k].body[1]), ft, stmts, k + 1)
    ELSE generate_func_defs(g, ft, stmts, k + 1)

RECURSIVE NotFuncDefs(_, _)
\* lStmt: the statements of stmts[k..] that are not function definitions
NotFuncDefs(stmts, k) ==
    IF k > Len(stmts) THEN <<>>
    ELSE IF stmts[k].body[1].nodeType = "FUNC_DEF" THEN NotFuncDefs(stmts, k + 1)
    ELSE <<stmts[k]>> \o NotFuncDefs(stmts, k + 1)

\* generate_func_first(tree) of the PROGRAM node
generate_func_first(g, ft, tree) ==
    Only([g1 \in {generate_func_defs(g, ft, tree.body[1].body, 1)} |->
      generate_statements(IF GRaised(g1) THEN g1
                          ELSE [g1 EXCEPT !.labelPresent = PyStr("MAIN")],
                          ft, NotFuncDefs(tree.body[1].body, 1), 1)])

\* TACGenerator with temp_count and labelCount kept by the class: a new
\* generator counts on from where the one before it stopped
TACGenerator_counting_on(ft, tree) ==
    emit(generate_func_first([instructions |-> <<>>, temp_count |-> tac.temp_count,
                              labelCount |-> tac.labelCount,
                              labelPresent |-> NoneV, exc |-> NoExc], ft, tree),
         "END", NoneV, NoneV, NoneV, NoneV)

\* TACGenerator(tree): __init__
TACGenerator(ft, tree) ==
    emit(generate_func_first([instructions |-> <<>>, temp_count |-> 0, labelCount |-> 0,
                              labelPresent |-> NoneV, exc |-> NoExc], ft, tree),
         "END", NoneV, NoneV, NoneV, NoneV)

-----------------------------------------------------------------------------
(* The source programs: a first line binding a, then up to MaxStmts        *)
(* top-level statements.                                                   *)

MaxStmts == 2

Ln(indent, words) == [indent |-> indent, words |-> words]

Statements == <<
    \* assignments
    <<Ln(0, <<"b", "=", "3">>)>>,
    <<Ln(0, <<"c", "=", "a", "+", "1">>)>>,
    \* if / elif / else
    <<Ln(0, <<"if", "a", "==", "5", ":">>), Ln(4, <<"a", "=", "5">>),
      Ln(0, <<"elif", "a", "!=", "5", ":">>), Ln(4, <<"a", "=", "1">>),
      Ln(0, <<"else", ":">>), Ln(4, <<"a", "=", "10">>)>>,
    <<Ln(0, <<"if", "a", "==", "5", ":">>), Ln(4, <<"if", "a", "==", "1", ":">>),
      Ln(8, <<"b", "=", "7">>), Ln(4, <<"c", "=", "7">>),
      Ln(0, <<"else", ":">>), Ln(4, <<"b", "=", "2">>)>>,
    <<Ln(0, <<"if", "a", "==", "1", ":">>), Ln(4, <<"while", "a", "<", "0", ":">>),
      Ln(8, <<"b", "=", "2">>), Ln(4, <<"c", "=", "3">>),
      Ln(0, <<"else", ":">>), Ln(4, <<"c", "=", "7">>)>>,
    \* loops
    <<Ln(0, <<"while", "a", "<", "5", ":">>), Ln(4, <<"c", "=", "2">>)>>,
    <<Ln(0, <<"for", "i", "in", "range", "(", "0", ",", "3", ",", "1", ")", ":">>),
      Ln(4, <<"c", "=", "2">>)>>,
    \* function definitions and calls
    <<Ln(0, <<"def", "f", "(", "x", ")", ":">>), Ln(4, <<"y", "=", "1">>),
      Ln(4, <<"return", "x">>)>>,
    <<Ln(0, <<"def", "g", "(", ")", ":">>), Ln(4, <<"y", "=", "2">>)>>,
    <<Ln(0, <<"f", "(", "a", ")">>)>>,
    <<Ln(0, <<"b", "=", "f", "(", "a", ")">>)>>,
    <<Ln(0, <<"c", "=", "2", "*", "a", "(", "3", ")">>)>>,
    <<Ln(0, <<"print", "(", "a", ")">>)>>,
    \* lines that start no statement
    <<Ln(0, <<"5", "=", "a">>)>>,
    <<Ln(4, <<"b", "=", "2">>)>>,
    <<Ln(0, <<"a", "b">>)>>
>>

RECURSIVE Chosen(_, _)
\* the lines of the statements choice[k..] names, in order
Chosen(choice, k) ==
    IF k > Len(choice) THEN <<>> ELSE Statements[choice[k]] \o Chosen(choice, k + 1)

Programs ==
    { <<Ln(0, <<"a", "=", v>>)>> \o Chosen(choice, 1) :
        v \in {"1", "5"},
        choice \in UNION { [1..n -> DOMAIN Statements] : n \in 0..MaxStmts } }

-----------------------------------------------------------------------------
(* main.py *)

NoParser == [pos |-> 0, none |-> FALSE, should_evaluate |-> TRUE, tree |-> NoneV, log |-> <<>>,
             tests |-> <<>>, writes |-> <<>>]

NoTac == [instructions |-> <<>>, temp_count |-> 0, labelCount |-> 0, labelPresent |-> NoneV,
          exc |-> NoExc]

Init ==
    /\ pc = "start"
    /\ inp \in Programs
    /\ tokens = <<>>
    /\ parser = NoParser
    /\ symbolTable = EmptyDict
    /\ functionTable = EmptyDict
    /\ tac = NoTac
    /\ stdout = <<>>
    /\ exc = NoExc
    /\ indent_stack = <<0>>
    /\ linesRead = 0
    /\ column = 0
    /\ run = 1
    /\ first = <<>>

\* tokens = lexical_analyzer(file)
Lex ==
    /\ pc = "start"
    /\ \E r \in {lexical_analyzer(inp)} :
          /\ tokens' = r.toks
          /\ exc' = r.exc
          /\ pc' = IF r.exc.type # "none" THEN "aborted" ELSE "lexed"
    /\ UNCHANGED <<inp, parser, symbolTable, functionTable, tac, stdout,
                 indent_stack, linesRead, column, run, first>>

\* parser = Parser(tokens): the tables are written even when the parser raises
Parse ==
    /\ pc = "lexed"
    /\ \E r \in {Parser(symbolTable, functionTable)} :
          /\ parser' = [pos |-> r.p.pos, none |-> r.p.none,
                        should_evaluate |-> r.p.should_evaluate, tree |-> r.node,
                        log |-> r.p.log, tests |-> r.p.tests, writes |-> r.p.writes]
          /\ symbolTable' = r.p.sym
          /\ functionTable' = r.p.ft
          /\ exc' = r.p.exc
          /\ pc' = IF r.p.exc.type = "Hang" THEN "hung"
                   ELSE IF r.p.exc.type # "none" THEN "aborted"
                   ELSE "parsed"
    /\ UNCHANGED <<inp, tokens, tac, stdout,
                 indent_stack, linesRead, column, run, first>>

\* TAC = TACGenerator(parser.tree).get_TAC()
Generate ==
    /\ pc = "parsed"
    /\ \E g \in {TACGenerator(functionTable, parser.tree)} :
          /\ tac' = g
          /\ exc' = g.exc
          /\ pc' = IF g.exc.type # "none" THEN "aborted" ELSE "generated"
    /\ UNCHANGED <<inp, tokens, parser, symbolTable, functionTable, stdout,
                 indent_stack, linesRead, column, run, first>>

\* print(*TAC, sep='\n')
PrintTAC ==
    /\ pc = "generated"
    /\ stdout' = tac.instructions
    /\ pc' = "printed"
    /\ UNCHANGED <<inp, tokens, parser, symbolTable, functionTable, tac, exc,
                 indent_stack, linesRead, column, run, first>>

Next == Lex \/ Parse \/ Generate \/ PrintTAC

Spec == Init /\ [][Next]_vars

-----------------------------------------------------------------------------
(* main() run a second time on the same lines.  The tables of config are   *)
(* emptied in between; the generator object of the first run stays until   *)
(* the second run constructs its own.                                      *)

\* start the second run from a fresh state, remembering what the first printed
Rerun ==
    /\ pc = "printed"
    /\ run = 1
    /\ run' = 2
    /\ first' = stdout
    /\ pc' = "start"
    /\ tokens' = <<>>
    /\ parser' = NoParser
    /\ symbolTable' = EmptyDict
    /\ functionTable' = EmptyDict
    /\ stdout' = <<>>
    /\ UNCHANGED <<inp, tac, exc, indent_stack, linesRead, column>>

SpecTwice == Init /\ [][Next \/ Rerun]_vars

-----------------------------------------------------------------------------
(* lexical_analyzer, one source line at a time.  While pc = "lexing" the   *)
(* variable tokens is the local listOfTokens, and indent_stack, linesRead  *)
(* and column are the function's locals indent_stack, lineNo and colNo;    *)
(* linesRead is the code's lineNo of the line about to be read.            *)

MaxLines == 3

\* every text of up to MaxLines lines of three widths, blank or of one of two
\* shapes, and every one-word line
LexPrograms ==
    LET kinds == { Ln(i, w) : i \in {0, 2, 4},
                              w \in {<<>>, <<"a", "=", "5">>, <<"if", "a", "==", "1", ":">>} }
    IN UNION { [1..n -> kinds] : n \in 0..MaxLines }
           \cup { <<Ln(0, <<w>>)>> : w \in DOMAIN Spell }

\* the state a run starts in, main() standing at the place at
InitAt(at, programs) ==
    /\ pc = at
    /\ inp \in programs
    /\ tokens = <<>>
    /\ parser = NoParser
    /\ symbolTable = EmptyDict
    /\ functionTable = EmptyDict
    /\ tac = NoTac
    /\ stdout = <<>>
    /\ exc = NoExc
    /\ indent_stack = <<0>>
    /\ linesRead = 0
    /\ column = 0
    /\ run = 1
    /\ first = <<>>

\* LexLine without the raise: a dedent to a width that was never pushed is let through
LexLine_lenient ==
    /\ pc = "lexing"
    /\ linesRead < Len(inp)
    /\ \E r \in {LexLines(SubSeq(inp, 1, linesRead + 1), linesRead, indent_stack, tokens)} :
          /\ indent_stack' = r.stack
          /\ tokens' = r.toks
          /\ column' = r.colNo
    /\ linesRead' = linesRead + 1
    /\ UNCHANGED <<pc, exc, inp, parser, symbolTable, functionTable, tac, stdout, run, first>>

\* one pass of the loop over the lines; a raise leaves no token list behind
LexLine ==
    /\ pc = "lexing"
    /\ linesRead < Len(inp)
    /\ \E r \in {LexLines(SubSeq(inp, 1, linesRead + 1), linesRead, indent_stack, tokens)} :
          /\ indent_stack' = r.stack
          /\ tokens' = IF r.exc.type # "none" THEN <<>> ELSE r.toks
          /\ exc' = r.exc
          /\ column' = r.colNo
          /\ pc' = IF r.exc.type # "none" THEN "aborted" ELSE "lexing"
    /\ linesRead' = linesRead + 1
    /\ UNCHANGED <<inp, parser, symbolTable, functionTable, tac, stdout, run, first>>

\* after the loop: close the open blocks, append EOF, return
LexEnd ==
    /\ pc = "lexing"
    /\ linesRead = Len(inp)
    /\ \E last \in {IF Len(inp) = 0 THEN 0 ELSE Len(inp) - 1} :
          tokens' = tokens \o CloseBlocks(indent_stack, last, column)
                           \o <<WordToken("EOF", "$", last + 1, -1)>>
    /\ indent_stack' = SubSeq(indent_stack, 1, 1)
    /\ column' = column + Len(indent_stack) - 1
    /\ pc' = "lexed"
    /\ UNCHANGED <<inp, parser, symbolTable, functionTable, tac, stdout, exc, linesRead,
                   run, first>>

SpecLex == InitAt("lexing", LexPrograms) /\ [][LexLine \/ LexEnd]_vars

-----------------------------------------------------------------------------
(* The pipeline run on assignments of arithmetic expressions: b = 1, then  *)
(* a = e for every expression e of up to MaxOps operators over 2 and b,    *)
(* with and without parentheses around each operand that has an operator.  *)

MaxOps == 2

RECURSIVE ExprsOf(_), OperandsOf(_)
\* the expressions with exactly n operators, as words
ExprsOf(n) ==
    IF n = 0 THEN { <<w>> : w \in {"2", "b"} }
    ELSE UNION { { l \o <<op>> \o r :
                     l \in OperandsOf(k), r \in OperandsOf(n - 1 - k),
                     op \in {"+", "-", "*", "/"} } : k \in 0..(n - 1) }

\* the same, each also in parentheses
OperandsOf(n) ==
    IF n = 0 THEN ExprsOf(0)
    ELSE ExprsOf(n) \cup { <<"(">> \o e \o <<")">> : e \in ExprsOf(n) }

\* test_parser_complex_assignment: a = ((5 * 10) + (10 / 2))
ComplexAssignment ==
    <<"(", "(", "5", "*", "10", ")", "+", "(", "10", "/", "2", ")", ")">>

ExprPrograms ==
    { <<Ln(0, <<"b", "=", "1">>), Ln(0, <<"a", "=">> \o e)>> :
        e \in UNION { OperandsOf(n) : n \in 0..MaxOps } \cup {ComplexAssignment} }

SpecExpr == InitAt("start", ExprPrograms) /\ [][Next]_vars

-----------------------------------------------------------------------------
(* The pipeline run on for loops: x = 5, y = 1, then a loop over range()   *)
(* with one, two or three arguments, each a constant or one of x and y.    *)

\* the argument lists of range(), as words
RangeArgs ==
    LET bounds == {"1", "3", "x", "y"} IN
    { <<stop>> : stop \in bounds }
        \cup { <<start, ",", stop>> : start \in bounds, stop \in bounds }
        \cup { <<start, ",", stop, ",", step>> :
                 start \in bounds, stop \in bounds, step \in {"1", "-1"} }

ForPrograms ==
    { <<Ln(0, <<"x", "=", "5">>), Ln(0, <<"y", "=", "1">>),
        Ln(0, <<"for", "i", "in", "range", "(">> \o args \o <<")", ":">>),
        Ln(4, <<"c", "=", "2">>)>> : args \in RangeArgs }

SpecFor == InitAt("start", ForPrograms) /\ [][Next]_vars

-----------------------------------------------------------------------------
(* The pipeline run on calls: a = 1, the definition of f(x, y), then f     *)
(* called as a statement, f called on the right of an assignment, or       *)
(* print called, with up to MaxArgs arguments, each an identifier, a       *)
(* constant or a sum.                                                      *)

MaxArgs == 2

RECURSIVE ArgLists(_)
\* the argument lists of n arguments, as words
ArgLists(n) ==
    IF n = 0 THEN {<<>>}
    ELSE { IF l = <<>> THEN arg ELSE l \o <<",">> \o arg :
             l \in ArgLists(n - 1), arg \in {<<"a">>, <<"2">>, <<"a", "+", "1">>} }

CallPrograms ==
    { <<Ln(0, <<"a", "=", "1">>), Ln(0, <<"def", "f", "(", "x", ",", "y", ")", ":">>),
        Ln(4, <<"c", "=", "1">>), Ln(4, <<"return", "x">>),
        Ln(0, callee \o <<"(">> \o args \o <<")">>)>> :
        callee \in {<<"f">>, <<"b", "=", "f">>, <<"print">>},
        args \in UNION { ArgLists(n) : n \in 0..MaxArgs } }

SpecCall == InitAt("start", CallPrograms) /\ [][Next]_vars

-----------------------------------------------------------------------------
(* The pipeline run on further statements: a first line binding a, then up *)
(* to MaxMore of: a definition whose body holds a line that starts no      *)
(* statement, a definition returning a sum, if chains with and without     *)
(* else, conditions over compound operands, a call of range() outside a    *)
(* for loop, a call of f, assignments of compound expressions.             *)

MaxMore == 2

RECURSIVE MoreTexts(_)
\* the texts of n such statements
MoreTexts(n) ==
    IF n = 0 THEN {<<>>}
    ELSE { t \o s : t \in MoreTexts(n - 1), s \in {
        <<Ln(0, <<"def", "g", "(", "x", ")", ":">>), Ln(4, <<"5", "=", "x">>),
          Ln(4, <<"return", "x">>)>>,
        <<Ln(0, <<"def", "f", "(", "x", ")", ":">>), Ln(4, <<"y", "=", "1">>),
          Ln(4, <<"return", "x", "+", "1">>)>>,
        <<Ln(0, <<"if", "a", "==", "5", ":">>), Ln(4, <<"b", "=", "1">>),
          Ln(0, <<"elif", "a", "==", "1", ":">>), Ln(4, <<"b", "=", "2">>),
          Ln(0, <<"elif", "a", "!=", "7", ":">>), Ln(4, <<"b", "=", "3">>)>>,
        <<Ln(0, <<"if", "a", "==", "5", ":">>), Ln(4, <<"b", "=", "1">>),
          Ln(0, <<"elif", "a", "==", "1", ":">>), Ln(4, <<"b", "=", "2">>)>>,
        <<Ln(0, <<"if", "a", "==", "1", ":">>), Ln(4, <<"b", "=", "1">>)>>,
        <<Ln(0, <<"if", "a", "==", "1", ":">>), Ln(4, <<"b", "=", "1">>),
          Ln(0, <<"else", ":">>), Ln(4, <<"b", "=", "2">>)>>,
        <<Ln(0, <<"while", "a", "+", "1", "<", "5", "*", "2", ":">>),
          Ln(4, <<"c", "=", "2">>)>>,
        <<Ln(0, <<"if", "a", "+", "1", "==", "2", "*", "3", ":">>),
          Ln(4, <<"c", "=", "2">>)>>,
        <<Ln(0, <<"b", "=", "range", "(", "3", ")">>)>>,
        <<Ln(0, <<"b", "=", "f", "(", "a", ")">>)>>,
        <<Ln(0, <<"c", "=", "a", "*", "2", "+", "1">>)>>,
        <<Ln(0, <<"c", "=", "(", "a", "+", "2", ")", "*", "(", "a", "-", "1", ")">>)>> } }

MorePrograms ==
    { <<Ln(0, <<"a", "=", v>>)>> \o t :
        v \in {"1", "5"}, t \in UNION { MoreTexts(n) : n \in 0..MaxMore } }

SpecMore == InitAt("start", MorePrograms) /\ [][Next]_vars

-----------------------------------------------------------------------------
(* Two programs compiled one after the other in one process, as the tests  *)
(* of the parser do.  The tables of config are module globals that nothing *)
(* empties: the second program is parsed with what the first left in them. *)

\* the next program is one statement of the above, without the line binding a
RunNext ==
    /\ pc \in {"printed", "aborted"}
    /\ run = 1
    /\ run' = 2
    /\ first' = stdout
    /\ inp' \in MoreTexts(1)
    /\ pc' = "start"
    /\ tokens' = <<>>
    /\ parser' = NoParser
    /\ stdout' = <<>>
    /\ exc' = NoExc
    /\ UNCHANGED <<symbolTable, functionTable, tac, indent_stack, linesRead, column>>

SpecNext == InitAt("start", MorePrograms) /\ [][Next \/ RunNext]_vars

-----------------------------------------------------------------------------
(* What the source text says, read off the lines of inp.  Line i of inp is *)
(* the line the lexer numbers i - 1.                                       *)

FirstWord(i) == inp[i].words[1]

\* the lines of the block under line i: the lines that follow it, as long as they are
\* indented deeper than line i
BlockLines(i) ==
    {j \in (i + 1)..Len(inp) : \A k \in (i + 1)..j : inp[k].indent > inp[i].indent}

\* the lines among 1..Len(inp) that satisfy Keep, in source order
LinesWhere(Keep(_)) == SelectSeq([i \in 1..Len(inp) |-> i], Keep)

\* the top-level statements that are not function definitions
TopStatements ==
    LinesWhere(LAMBDA i : inp[i].indent = 0 /\ FirstWord(i) \notin {"elif", "else", "def"})

\* the top-level function definitions
DefLines == LinesWhere(LAMBDA i : inp[i].indent = 0 /\ FirstWord(i) = "def")

\* the parser returned a tree and reported nothing
ParsedQuietly == pc \in {"parsed", "generated", "printed"} /\ parser.log = <<>>

\* the positions of the printed instructions whose op is op, in order
Positions(op) == SelectSeq([m \in 1..Len(stdout) |-> m], LAMBDA m : stdout[m].op = op)

-----------------------------------------------------------------------------
(* Instruction order of the output *)

\* instruction ins is one that lowering the statement on line i emits: the store into the
\* target of an assignment or into the variable of a for, the IFZ of an if or a while,
\* the PRINT or the LCALL of a call
Lowers(i, ins) ==
    IF FirstWord(i) \in {"if", "while"} THEN ins.op = "IFZ"
    ELSE IF FirstWord(i) = "for" THEN ins.op = "ASSIGN" /\ ins.result = PyStr(inp[i].words[2])
    ELSE IF inp[i].words[2] = "=" THEN ins.op = "ASSIGN" /\ ins.result = PyStr(FirstWord(i))
    ELSE IF FirstWord(i) = "print" THEN ins.op = "PRINT"
    ELSE ins.op = "LCALL" /\ ins.arg1 = PyStr(FirstWord(i))

RECURSIVE LoweredInOrder(_, _, _)
\* the statements stmts[k..] are lowered, each by an instruction of its own, in this order
\* in stdout[from..]
LoweredInOrder(stmts, k, from) ==
    IF k > Len(stmts) THEN TRUE
    ELSE IF from > Len(stdout) THEN FALSE
    ELSE IF Lowers(stmts[k], stdout[from]) THEN LoweredInOrder(stmts, k + 1, from + 1)
    ELSE LoweredInOrder(stmts, k, from + 1)

\* C1: when a program compiles without error, every top-level statement that is not a
\* function definition is lowered after the MAIN label, in source order and none omitted,
\* whatever statement precedes it
C1_TopLevelStatementsLowered ==
    (pc = "printed" /\ parser.log = <<>>) =>
        \E m \in DOMAIN stdout :
            /\ stdout[m].label = PyStr("MAIN")
            /\ LoweredInOrder(TopStatements, 1, m)

\* the function on line DefLines[k] has a return statement
HasReturn(k) == \E j \in BlockLines(DefLines[k]) : FirstWord(j) = "return"

\* C2: every top-level function definition produces one BEGIN_FUNC ... END_FUNC range
\* labelled with the function's name; the ranges are in source order, do not nest or
\* overlap and precede the single instruction labelled MAIN; a RETURN comes immediately
\* before END_FUNC when the function returns a value
C2_FunctionRangesBeforeMain ==
    (pc = "printed" /\ parser.log = <<>>) =>
        /\ Len(Positions("BEGIN_FUNC")) = Len(DefLines)
        /\ Len(Positions("END_FUNC")) = Len(DefLines)
        /\ \A k \in DOMAIN DefLines :
              /\ stdout[Positions("BEGIN_FUNC")[k]].label = PyStr(inp[DefLines[k]].words[2])
              /\ Positions("BEGIN_FUNC")[k] < Positions("END_FUNC")[k]
              /\ k < Len(DefLines) =>
                    Positions("END_FUNC")[k] < Positions("BEGIN_FUNC")[k + 1]
              /\ HasReturn(k) => stdout[Positions("END_FUNC")[k] - 1].op = "RETURN"
        /\ \E m \in DOMAIN stdout :
              /\ stdout[m].label = PyStr("MAIN")
              /\ \A n \in DOMAIN stdout : stdout[n].label = PyStr("MAIN") => n = m
              /\ \A k \in DOMAIN DefLines : Positions("END_FUNC")[k] < m

-----------------------------------------------------------------------------
(* Symbol-table effects of parsing *)

\* no line of the program opens a loop
LoopFree == \A i \in DOMAIN inp : FirstWord(i) \notin {"while", "for"}

\* the statements directly in the block under line h
DirectStatements(h) ==
    {j \in BlockLines(h) : inp[j].indent = inp[h + 1].indent}

\* the elif and else lines of the chain the if on line i opens
ChainHeaders(i) ==
    {h \in (i + 1)..Len(inp) :
        /\ inp[h].indent = inp[i].indent
        /\ FirstWord(h) \in {"elif", "else"}
        /\ \A k \in (i + 1)..h :
              \/ inp[k].indent > inp[i].indent
              \/ inp[k].indent = inp[i].indent /\ FirstWord(k) \in {"elif", "else"}}

\* line j is an assignment
IsAssignmentLine(j) == Len(inp[j].words) >= 3 /\ inp[j].words[2] = "="

\* the assignment on line j stored a value in the symbol table
WroteTable(j) == \E k \in DOMAIN parser.writes : parser.writes[k] = j - 1

\* the condition on line h evaluated true
HeldTrue(h) ==
    \E k \in DOMAIN parser.tests : parser.tests[k].lineNo = h - 1 /\ parser.tests[k].result

\* some assignment of the branch under line h was applied
BranchApplied(h) == \E j \in BlockLines(h) : WroteTable(j)

\* the branch of the chain opened on line i that is to run: the first whose condition
\* held, or the else branch when none did
Designated(i, h) ==
    IF \E t \in {i} \cup ChainHeaders(i) : HeldTrue(t)
    THEN HeldTrue(h) /\ \A t \in {i} \cup ChainHeaders(i) : HeldTrue(t) => h <= t
    ELSE FirstWord(h) = "else"

\* C3: of a top-level if/elif/else chain only the first branch whose condition is true,
\* or the else branch when none is, has its assignments applied, and that branch has
\* them applied; with a = 1 the chain 'if a==5: a=5 / elif a!=5: a=1 / else: a=10'
\* leaves a = 1 (read on programs without loops)
C3_ExactlyOneBranchApplied ==
    (ParsedQuietly /\ LoopFree) =>
        /\ \A i \in DOMAIN inp : (inp[i].indent = 0 /\ FirstWord(i) = "if") =>
              \A h \in {i} \cup ChainHeaders(i) :
                  /\ BranchApplied(h) => Designated(i, h)
                  /\ Designated(i, h) =>
                        \A j \in DirectStatements(h) : IsAssignmentLine(j) => WroteTable(j)
        /\ inp = <<Ln(0, <<"a", "=", "1">>)>> \o Statements[3] =>
              symbolTable[PyStr("a")] = PyInt(1)

\* C4: an assignment nested at any depth under an if or elif whose condition was false
\* never writes the symbol table, whether it stands inside an inner if whose condition
\* is true or after such an inner if (read on programs without loops)
C4_NotTakenBranchNeverWrites ==
    LoopFree =>
        \A k \in DOMAIN parser.tests :
            (FirstWord(parser.tests[k].lineNo + 1) \in {"if", "elif"}
                /\ ~parser.tests[k].result) =>
                \A j \in BlockLines(parser.tests[k].lineNo + 1) : ~WroteTable(j)

\* C5: the condition of a while loop is evaluated once, and the assignments of the loop
\* body write the symbol table only if it evaluated true
C5_WhileBodyWritesOnlyIfTrue ==
    \A k \in DOMAIN parser.tests :
        FirstWord(parser.tests[k].lineNo + 1) = "while" =>
            /\ \A n \in DOMAIN parser.tests :
                  parser.tests[n].lineNo = parser.tests[k].lineNo => n = k
            /\ \A j \in BlockLines(parser.tests[k].lineNo + 1) :
                  WroteTable(j) => parser.tests[k].result

-----------------------------------------------------------------------------
(* Shape of the AST *)

RECURSIVE IfNodes(_)
\* the IfNodes of the tree under node
IfNodes(node) ==
    IF node.cls = "ASTNode" THEN UNION {IfNodes(node.body[k]) : k \in DOMAIN node.body}
    ELSE IF node.cls = "IfNode"
    THEN {node} \cup IfNodes(node.consequent) \cup IfNodes(node.alternate)
                \cup UNION {IfNodes(node.elifs[k][2]) : k \in DOMAIN node.elifs}
    ELSE IF node.cls \in {"WhileNode", "ForNode"} THEN IfNodes(node.consequent)
    ELSE IF node.cls = "FunctionDefNode" THEN IfNodes(node.body)
    ELSE {}

RECURSIVE LeftLine(_)
\* the line of the leftmost token of a condition or an expression
LeftLine(x) ==
    IF x.cls = "Token" THEN x.lineNo
    ELSE IF x.cls \in {"BinaryExpressionNode", "ExpressionNode"} THEN LeftLine(x.left)
    ELSE -1

\* the number of statements of a block of the AST
BlockSize(block) == IF block.cls = "ASTNode" THEN Len(block.body) ELSE 0

\* the elif lines of the chain opened on line i, in source order
ElifLines(i) == LinesWhere(LAMBDA h : h \in ChainHeaders(i) /\ FirstWord(h) = "elif")

\* IfNode n has the blocks of the chain opened on line i, each with all its statements
SameShape(n, i) ==
    /\ BlockSize(n.consequent) = Cardinality(DirectStatements(i))
    /\ Len(n.elifs) = Len(ElifLines(i))
    /\ \A k \in DOMAIN n.elifs :
          /\ LeftLine(n.elifs[k][1]) = ElifLines(i)[k] - 1
          /\ BlockSize(n.elifs[k][2]) = Cardinality(DirectStatements(ElifLines(i)[k]))
    /\ \A h \in ChainHeaders(i) :
          FirstWord(h) = "else" => BlockSize(n.alternate) = Cardinality(DirectStatements(h))
    /\ (\A h \in ChainHeaders(i) : FirstWord(h) # "else") => ~Truthy(n.alternate)

\* C6: for every if statement the AST holds the consequent, one (test, block) pair per
\* elif in source order and the else block when present, each with all its statements,
\* whatever the conditions evaluated to
C6_IfNodeHasEveryBranch ==
    ParsedQuietly =>
        \A i \in DOMAIN inp : FirstWord(i) = "if" =>
            \E n \in IfNodes(parser.tree) : LeftLine(n.test) = i - 1 /\ SameShape(n, i)

-----------------------------------------------------------------------------
(* Errors *)

\* line i opens with a token that starts no statement (a constant or a symbol), or with an
\* identifier that neither = nor ( follows, or is indented deeper than the line before it
\* although that line opens no block
BreaksGrammar(i) ==
    \/ TokenTypeOf(FirstWord(i)) \in {"CONSTANT", "SYMBOL"}
    \/ /\ TokenTypeOf(FirstWord(i)) = "IDENTIFIER"
       /\ (Len(inp[i].words) < 2 \/ inp[i].words[2] \notin {"=", "("})
    \/ /\ i > 1
       /\ inp[i].indent > inp[i - 1].indent
       /\ Last(inp[i - 1].words) # ":"

\* C7: a token stream that breaks the grammar makes the parser raise GrammarError; the
\* parser never returns an AST for it (read on programs without loops)
C7_GrammarViolationRaises ==
    (LoopFree /\ pc \notin {"start", "lexed"} /\ \E i \in DOMAIN inp : BreaksGrammar(i)) =>
        /\ pc = "aborted"
        /\ exc.type = "GrammarError"
        /\ IsNone(parser.tree)

\* C8: instructions are output only if every token up to end-of-input was parsed and
\* nothing was reported on the way
C8_AllOrNothing ==
    stdout # <<>> =>
        /\ parser.none \/ tokens[parser.pos + 1].tokenType = "EOF"
        /\ parser.log = <<>>

\* word j of line i is the name of a called function, other than print and range
IsCall(i, j) ==
    /\ j < Len(inp[i].words)
    /\ inp[i].words[j + 1] = "("
    /\ TokenTypeOf(inp[i].words[j]) = "IDENTIFIER"
    /\ inp[i].words[j] \notin {"print", "range"}
    /\ ~(j > 1 /\ inp[i].words[j - 1] = "def")

\* the lines that define the function name at top level
DefinedOn(name) ==
    {d \in DOMAIN inp : inp[d].indent = 0 /\ FirstWord(d) = "def" /\ inp[d].words[2] = name}

\* C9: a call, as a statement, as the right-hand side of an assignment or as an operand,
\* of a function that no line of the program defines makes parsing fail: no AST is
\* produced (read on programs without loops)
C9_UndefinedCallFails ==
    (LoopFree /\ pc \in {"parsed", "generated", "printed"}) =>
        \A i \in DOMAIN inp : \A j \in DOMAIN inp[i].words :
            IsCall(i, j) => DefinedOn(inp[i].words[j]) # {}

\* line i calls with word j a function that is defined only further down
IsForwardCall(i, j) ==
    /\ IsCall(i, j)
    /\ DefinedOn(inp[i].words[j]) # {}
    /\ \A d \in DefinedOn(inp[i].words[j]) : d > i

\* C10: a program, sound otherwise, in which a call of f stands above the definition
\* of f compiles, and the call is lowered to an LCALL of f
C10_ForwardReferenceResolves ==
    \A i \in DOMAIN inp : \A j \in DOMAIN inp[i].words :
        (/\ IsForwardCall(i, j)
         /\ LoopFree
         /\ \A n \in DOMAIN inp : ~BreaksGrammar(n)
         /\ \A n \in DOMAIN inp : \A m \in DOMAIN inp[n].words :
               IsCall(n, m) => DefinedOn(inp[n].words[m]) # {}) =>
            /\ pc # "aborted"
            /\ pc = "printed" =>
                  \E m \in DOMAIN stdout :
                      stdout[m].op = "LCALL" /\ stdout[m].arg1 = PyStr(inp[i].words[j])

-----------------------------------------------------------------------------
(* The lexer: indentation, lines and words *)

\* how many of the tokens toks are of the kind type
CountOf(toks, type) == Cardinality({k \in DOMAIN toks : toks[k].tokenType = type})

\* C11: while lexical_analyzer runs, and when it has returned or raised, the
\* indentation stack is non-empty, has 0 at the bottom and is strictly
\* increasing; while it runs and when it has returned, the depth of the stack
\* minus one is the number of BLOCK_BEGIN emitted minus the number of BLOCK_END
\* emitted; the returned stream has as many BLOCK_END as BLOCK_BEGIN and no
\* prefix of it has more BLOCK_END than BLOCK_BEGIN.
C11_IndentStackMatchesBlocks ==
    /\ pc \in {"lexing", "lexed", "aborted"} =>
          /\ indent_stack # <<>>
          /\ indent_stack[1] = 0
          /\ \A k \in 1..(Len(indent_stack) - 1) : indent_stack[k] < indent_stack[k + 1]
    /\ pc \in {"lexing", "lexed"} =>
          Len(indent_stack) - 1 = CountOf(tokens, "BLOCK_BEGIN") - CountOf(tokens, "BLOCK_END")
    /\ pc = "lexed" =>
          /\ CountOf(tokens, "BLOCK_BEGIN") = CountOf(tokens, "BLOCK_END")
          /\ \A n \in 0..Len(tokens) :
                CountOf(SubSeq(tokens, 1, n), "BLOCK_END")
                    <= CountOf(SubSeq(tokens, 1, n), "BLOCK_BEGIN")

\* a returned stream with two nested blocks, both closed by one dedent
C11_Witness ==
    /\ pc = "lexed"
    /\ CountOf(tokens, "BLOCK_BEGIN") = 2
    /\ \E k \in 1..(Len(tokens) - 2) :
          /\ tokens[k].tokenType = "BLOCK_END"
          /\ tokens[k + 1].tokenType = "BLOCK_END"
          /\ tokens[k + 2].tokenType # "EOF"

\* how many open widths are wider than level
WiderThan(level) == Cardinality({k \in DOMAIN indent_stack : indent_stack[k] > level})

\* the width level is one of the open widths
IsOpenWidth(level) == \E k \in DOMAIN indent_stack : indent_stack[k] = level

\* the lexer is about to read a non-blank line narrower than the innermost open width
AtDedent ==
    /\ pc = "lexing"
    /\ linesRead < Len(inp)
    /\ inp[linesRead + 1].words # <<>>
    /\ inp[linesRead + 1].indent < Last(indent_stack)

\* what reading the line at a dedent does
DedentStep ==
    IF IsOpenWidth(inp[linesRead + 1].indent)
    THEN /\ pc' = "lexing"
         /\ exc' = NoExc
         /\ indent_stack' = SubSeq(indent_stack, 1, Len(indent_stack) - WiderThan(inp[linesRead + 1].indent))
         /\ Len(tokens') > Len(tokens) + WiderThan(inp[linesRead + 1].indent)
         /\ SubSeq(tokens', 1, Len(tokens)) = tokens
         /\ \A k \in 1..WiderThan(inp[linesRead + 1].indent) :
               tokens'[Len(tokens) + k].tokenType = "BLOCK_END"
         /\ CountOf(tokens', "BLOCK_END")
               = CountOf(tokens, "BLOCK_END") + WiderThan(inp[linesRead + 1].indent)
    ELSE /\ pc' = "aborted"
         /\ exc'.type = "IndentationError"
         /\ tokens' = <<>>

\* C12: reading a non-blank line narrower than the top of the indentation stack
\* raises IndentationError and leaves no token list when the line's width is
\* none of the open widths; when it is one of them, nothing is raised and
\* exactly one BLOCK_END is emitted for each popped width, before the line's
\* own tokens.
C12_DedentRaisesOrCloses == [][AtDedent => DedentStep]_vars

\* a dedent to width 2 through width 4 with only 0 and 4 open has raised
C12_Witness ==
    /\ pc = "aborted"
    /\ exc.type = "IndentationError"
    /\ indent_stack = <<0>>
    /\ inp[linesRead].indent = 2
    /\ \E k \in 1..(linesRead - 1) : inp[k].indent = 4 /\ inp[k].words # <<>>

\* a token as the text shows it: its kind, its text and its line
Shown(t) == <<t.tokenType, t.atr.s, t.lineNo>>

RECURSIVE LineByLine(_)
\* what the lines from line i on owe the stream: each non-blank line its words,
\* left to right, then one NEWLINE; a blank line nothing
LineByLine(i) ==
    IF i > Len(inp) THEN <<>>
    ELSE IF inp[i].words = <<>> THEN LineByLine(i + 1)
    ELSE [k \in 1..Len(inp[i].words) |->
              <<TokenTypeOf(inp[i].words[k]), inp[i].words[k], i - 1>>]
         \o <<<<"NEWLINE", "\\n", i - 1>>>> \o LineByLine(i + 1)

\* the tokens of the stream that are no block marker and no end of input
LineTokens == SelectSeq(tokens, LAMBDA t : t.tokenType \notin {"BLOCK_BEGIN", "BLOCK_END", "EOF"})

\* the returned stream
ReturnedStream ==
    /\ CountOf(tokens, "EOF") = 1
    /\ Last(tokens).tokenType = "EOF"
    /\ [k \in DOMAIN LineTokens |-> Shown(LineTokens[k])] = LineByLine(1)
    /\ inp = <<Ln(0, <<"a", "=", "5">>)>> =>
          [k \in DOMAIN tokens |-> <<tokens[k].tokenType, tokens[k].atr.s>>]
              = << <<"IDENTIFIER", "a">>, <<"OPERATOR", "=">>, <<"CONSTANT", "5">>,
                   <<"NEWLINE", "\\n">>, <<"EOF", "$">> >>

\* the lexer is about to read a blank line
AtBlankLine ==
    /\ pc = "lexing"
    /\ linesRead < Len(inp)
    /\ inp[linesRead + 1].words = <<>>

\* C13: a token stream that lexical_analyzer returns holds exactly one EOF, its
\* last token; apart from the block markers and the EOF it is, line by line in
\* source order, the words of each non-blank line from left to right followed
\* by one NEWLINE; reading a blank line appends no token and leaves the
\* indentation stack as it was; the single line 'a = 5' gives IDENTIFIER a,
\* OPERATOR =, CONSTANT 5, NEWLINE, EOF.
C13_LinesGiveWordsNewlineEof ==
    /\ [](pc = "lexed" => ReturnedStream)
    /\ [][AtBlankLine => tokens' = tokens /\ indent_stack' = indent_stack /\ pc' = "lexing"]_vars

\* a returned stream of a text with a blank line inside an open block
C13_Witness ==
    /\ pc = "lexed"
    /\ Len(inp) = 3
    /\ inp[1].words # <<>> /\ inp[1].indent = 0
    /\ inp[2].words = <<>> /\ inp[2].indent = 4
    /\ inp[3].words # <<>> /\ inp[3].indent = 2
    /\ CountOf(tokens, "NEWLINE") = 2

\* the kind the language gives each word
KindOf(word) ==
    CASE word \in {"if", "elif", "else"} -> "CONDITIONAL"
      [] word \in {"for", "while"} -> "LOOP"
      [] word \in {"+", "-", "*", "/", "%", "="} -> "OPERATOR"
      [] word \in {"==", "!=", "<", "<=", ">", ">="} -> "RELOP"
      [] word = ":" -> "SEMICOLON"
      [] word = "def" -> "FUNCTION"
      [] word \in {"return", "in", "not"} -> "KEYWORD"
      [] word \in {"a", "b", "c", "i", "x", "y", "f", "g", "r0", "r1", "r2", "r3",
                   "print", "range", "MAIN"} -> "IDENTIFIER"
      [] word \in {"0", "1", "2", "3", "5", "7", "10", "-1", "0.5"} -> "CONSTANT"
      [] word \in {"@", "(", ")", ","} -> "SYMBOL"

\* the tokens made of a word of the text
IsWordToken(t) == t.tokenType \notin {"BLOCK_BEGIN", "BLOCK_END", "NEWLINE", "EOF"}

\* C14: every word the lexer has read became one token of the kind its place
\* in the fixed order gives it: if/elif/else CONDITIONAL, for/while LOOP, the
\* arithmetic symbols and '=' OPERATOR, the six relational symbols RELOP, ':'
\* SEMICOLON, def FUNCTION, the other reserved words (return, in, not) KEYWORD,
\* identifier-shaped words IDENTIFIER, numeric literals CONSTANT, any other
\* character ('@', '(', ')', ',') SYMBOL; and a line of one word raises nothing
\* and gives that one token, a NEWLINE and the EOF.
C14_WordsClassifiedByPriority ==
    /\ \A k \in DOMAIN tokens :
          IsWordToken(tokens[k]) => tokens[k].tokenType = KindOf(tokens[k].atr.s)
    /\ (Len(inp) = 1 /\ Len(inp[1].words) = 1) =>
          /\ pc # "aborted"
          /\ pc = "lexed" =>
                /\ Len(tokens) = 3
                /\ \E w \in DOMAIN Spell :
                      /\ inp[1].words = <<w>>
                      /\ tokens[1].tokenType = KindOf(w)
                      /\ tokens[1].atr.s = w

\* the reserved word return, alone on a line, has become a KEYWORD token
C14_Witness ==
    /\ pc = "lexed"
    /\ inp = <<Ln(0, <<"return">>)>>
    /\ tokens[1].tokenType = "KEYWORD"

-----------------------------------------------------------------------------
(* Expressions *)

\* the words of the expression assigned on line 2 are words[3..Len(words)]
ExprWords == inp[2].words

\* how many parentheses are open before word k, counted from word lo
OpenBefore(lo, k) ==
    Cardinality({j \in lo..(k - 1) : ExprWords[j] = "("})
        - Cardinality({j \in lo..(k - 1) : ExprWords[j] = ")"})

\* the places in lo..hi of the operators ops that stand inside no parenthesis
Outermost(lo, hi, ops) ==
    {k \in lo..hi : ExprWords[k] \in ops /\ OpenBefore(lo, k) = 0}

\* the last of the places
LastOf(places) == CHOOSE k \in places : \A j \in places : j <= k

RECURSIVE Grouping(_, _)
\* how arithmetic reads the words lo..hi: split at the last outermost '+' or
\* '-'; if there is none, at the last outermost '*' or '/'; if there is none
\* either, the words are one operand, or an expression in parentheses
Grouping(lo, hi) ==
    IF lo = hi THEN [leaf |-> ExprWords[lo], at |-> lo]
    ELSE IF Outermost(lo, hi, {"+", "-"}) # {}
    THEN [op |-> ExprWords[LastOf(Outermost(lo, hi, {"+", "-"}))],
          left |-> Grouping(lo, LastOf(Outermost(lo, hi, {"+", "-"})) - 1),
          right |-> Grouping(LastOf(Outermost(lo, hi, {"+", "-"})) + 1, hi)]
    ELSE IF Outermost(lo, hi, {"*", "/"}) # {}
    THEN [op |-> ExprWords[LastOf(Outermost(lo, hi, {"*", "/"}))],
          left |-> Grouping(lo, LastOf(Outermost(lo, hi, {"*", "/"})) - 1),
          right |-> Grouping(LastOf(Outermost(lo, hi, {"*", "/"})) + 1, hi)]
    ELSE Grouping(lo + 1, hi - 1)

RECURSIVE TreeOf(_)
\* the tree the parser built, in the same form: a Token is a leaf at its
\* column, an ExpressionNode an operator with its two children
TreeOf(node) ==
    IF IsNone(node) THEN [missing |-> TRUE]
    ELSE IF node.cls = "Token" THEN [leaf |-> node.atr.s, at |-> node.colNo + 1]
    ELSE [op |-> node.value, left |-> TreeOf(node.left), right |-> TreeOf(node.right)]

\* the right-hand side of the assignment on line 2, in the tree of the parser
AssignedTree == parser.tree.body[1].body[2].body[1].body[1].right

\* C15: the tree the parser builds for an arithmetic expression groups the
\* words as arithmetic does: '*' and '/' bind tighter than '+' and '-',
\* operators of equal precedence group to the left, an expression in
\* parentheses is one operand, and every operator node has its two children;
\* an expression that divides by nothing but non-zero values is never
\* rejected; and a = ((5 * 10) + (10 / 2)) gives '+' over '*'(5, 10) and
\* '/'(10, 2).
C15_ExpressionTreeGroupsAsArithmetic ==
    /\ pc = "aborted" => exc.type = "ZeroDivisionError"
    /\ pc \in {"parsed", "generated", "printed"} =>
          /\ TreeOf(AssignedTree) = Grouping(3, Len(ExprWords))
          /\ ExprWords = <<"a", "=">> \o ComplexAssignment =>
                TreeOf(AssignedTree) =
                    [op |-> "+",
                     left |-> [op |-> "*", left |-> [leaf |-> "5", at |-> 5],
                               right |-> [leaf |-> "10", at |-> 7]],
                     right |-> [op |-> "/", left |-> [leaf |-> "10", at |-> 11],
                                right |-> [leaf |-> "2", at |-> 13]]]

\* a = 2 - b * 2 has been parsed: '-' over 2 and '*'(b, 2)
C15_Witness ==
    /\ pc = "parsed"
    /\ ExprWords = <<"a", "=", "2", "-", "b", "*", "2">>
    /\ AssignedTree.value = "-"
    /\ AssignedTree.right.cls = "ExpressionNode"
    /\ AssignedTree.right.value = "*"

-----------------------------------------------------------------------------
(* for loops over range() *)

\* the words of the for line, the third line of the text
ForWords == inp[3].words

\* the arguments of range(): the words between its parentheses that are no comma
RangeWords == SelectSeq(SubSeq(ForWords, 6, Len(ForWords) - 2), LAMBDA w : w # ",")

\* the three bounds, as the text gives them: a missing start is 0, a missing step 1
StartWord == IF Len(RangeWords) = 1 THEN "0" ELSE RangeWords[1]

StopWord == IF Len(RangeWords) = 1 THEN RangeWords[1] ELSE RangeWords[2]

StepWord == IF Len(RangeWords) = 3 THEN RangeWords[3] ELSE "1"

\* the number a bound stands for: a literal itself, x and y what lines 1 and 2 assign
BoundValue(w) ==
    IF IsNumberShaped(w) THEN int(w)
    ELSE int(inp[CHOOSE i \in 1..2 : inp[i].words[1] = w].words[3])

\* instruction k is the guard of the loop: it carries a label, compares the
\* loop variable with the stop bound into a temporary, and the IFZ after it
\* tests that temporary
IsGuard(ins, k) ==
    /\ k + 1 <= Len(ins)
    /\ ins[k].op \in {">", "<="}
    /\ ~IsNone(ins[k].label)
    /\ ins[k].arg1 = PyStr(ForWords[2])
    /\ ins[k].arg2 \in {PyStr(StopWord), PyInt(BoundValue(StopWord))}
    /\ ins[k + 1].op = "IFZ"
    /\ ins[k + 1].arg1 = ins[k].result
    /\ ins[k + 1].arg2 # ins[k].label

\* C16: in the instructions output for a for loop there is one guard, and its
\* opcode is '>' when the start bound is greater than the stop bound and '<='
\* when it is not
C16_GuardOpcodeFollowsBounds ==
    pc = "printed" =>
        /\ Cardinality({k \in DOMAIN stdout : IsGuard(stdout, k)}) = 1
        /\ \A k \in DOMAIN stdout :
              IsGuard(stdout, k) =>
                 stdout[k].op = IF BoundValue(StartWord) > BoundValue(StopWord) THEN ">" ELSE "<="

\* a bound as an operand of an instruction: its word, or the number it spells
AsOperand(w) == {PyStr(w)} \cup (IF IsNumberShaped(w) THEN {PyInt(int(w))} ELSE {})

\* the step bound without its sign, as an operand
StepSize == {PyInt(Abs(BoundValue(StepWord)))}

\* the instructions from place k on are the loop of the text: the start bound
\* assigned to the loop variable, the guard and its IFZ, the body c = 2, the
\* step into a fresh temporary, that temporary assigned back, the jump to the
\* start label
IsLoweredLoop(ins, k) ==
    /\ k + 6 <= Len(ins)
    /\ ins[k].op = "ASSIGN"
    /\ ins[k].arg1 \in AsOperand(StartWord)
    /\ ins[k].result = PyStr(ForWords[2])
    /\ IsGuard(ins, k + 1)
    /\ ins[k + 3].op = "ASSIGN"
    /\ ins[k + 3].arg1 \in AsOperand("2")
    /\ ins[k + 3].result = PyStr("c")
    /\ ins[k + 4].op = (IF BoundValue(StepWord) >= 0 THEN "+" ELSE "-")
    /\ ins[k + 4].arg1 = PyStr(ForWords[2])
    /\ ins[k + 4].arg2 \in StepSize
    /\ ins[k + 4].result # ins[k + 1].result
    /\ ins[k + 5].op = "ASSIGN"
    /\ ins[k + 5].arg1 = ins[k + 4].result
    /\ ins[k + 5].result = PyStr(ForWords[2])
    /\ ins[k + 6].op = "GOTO"
    /\ ins[k + 6].arg1 = ins[k + 1].label

\* C17: a for loop over range() with one, two or three arguments compiles,
\* the missing start being 0 and the missing step 1, and what is output for
\* it is the assignment of the start bound, the guard, the body, the step
\* into a fresh temporary, the assignment back and the jump to the start label
C17_EveryRangeArityLowers ==
    /\ pc \notin {"aborted", "hung"}
    /\ pc = "printed" => IsLoweredLoop(stdout, 3)

-----------------------------------------------------------------------------
(* Calls of a defined function, and print *)

\* the words of the call line, the fifth line of the text
CallWords == inp[5].words

\* the call is the right-hand side of an assignment
IsAssignedCall == CallWords[2] = "="

\* the name called
Callee == IF IsAssignedCall THEN CallWords[3] ELSE CallWords[1]

\* the words between the parentheses of the call
ArgWords == SubSeq(CallWords, IF IsAssignedCall THEN 5 ELSE 3, Len(CallWords) - 1)

\* the place of the first comma of ws, or one past its end
FirstComma(ws) ==
    IF \E k \in DOMAIN ws : ws[k] = ","
    THEN CHOOSE k \in DOMAIN ws : ws[k] = "," /\ \A j \in 1..(k - 1) : ws[j] # ","
    ELSE Len(ws) + 1

RECURSIVE SplitArgs(_)
\* the arguments of the call, each as its words
SplitArgs(ws) ==
    IF ws = <<>> THEN <<>>
    ELSE <<SubSeq(ws, 1, FirstComma(ws) - 1)>> \o SplitArgs(SubSeq(ws, FirstComma(ws) + 1, Len(ws)))

Arguments == SplitArgs(ArgWords)

\* n times the opcode op
Times(n, op) == [k \in 1..n |-> op]

\* what is output for the call line: the instructions after MAIN's a = 1, END left out
CallCode == SubSeq(stdout, 6, Len(stdout) - 1)

\* the opcodes of the instructions ins
Opcodes(ins) == [k \in DOMAIN ins |-> ins[k].op]

\* C18: a call of the defined function f with N arguments, as a statement or
\* on the right of an assignment, compiles whatever its arguments are, and
\* what is output for it is N PUSH_ARG in the order of the arguments, one
\* LCALL of f into a temporary, for an assignment one ASSIGN of that temporary
\* to the target, then N POP_ARG
C18_CallPushesCallsPops ==
    Callee = "f" =>
        /\ pc \notin {"aborted", "hung"}
        /\ pc = "printed" =>
              /\ Opcodes(CallCode)
                    = Times(Len(Arguments), "PUSH_ARG") \o <<"LCALL">>
                        \o (IF IsAssignedCall THEN <<"ASSIGN">> ELSE <<>>)
                        \o Times(Len(Arguments), "POP_ARG")
              /\ \A j \in DOMAIN Arguments :
                    Len(Arguments[j]) = 1 => CallCode[j].arg1 \in AsOperand(Arguments[j][1])
              /\ CallCode[Len(Arguments) + 1].arg1 = PyStr("f")
              /\ IsAssignedCall =>
                    /\ CallCode[Len(Arguments) + 2].arg1 = CallCode[Len(Arguments) + 1].arg2
                    /\ CallCode[Len(Arguments) + 2].result = PyStr(CallWords[1])

\* C19: a print call with k arguments is accepted although print is in no
\* function table, and what is output for it is k PRINT, one for each
\* argument in order, and no PUSH_ARG, LCALL or POP_ARG
C19_PrintIsPrintOnly ==
    Callee = "print" =>
        /\ pc \notin {"aborted", "hung"}
        /\ PyStr("print") \notin DOMAIN functionTable
        /\ pc = "printed" =>
              /\ Opcodes(CallCode) = Times(Len(Arguments), "PRINT")
              /\ \A k \in DOMAIN stdout : stdout[k].op \notin {"PUSH_ARG", "LCALL", "POP_ARG"}
              /\ \A j \in DOMAIN Arguments :
                    Len(Arguments[j]) = 1 =>
                        /\ CallCode[j].arg1.cls = "Token"
                        /\ CallCode[j].arg1.atr \in AsOperand(Arguments[j][1])

-----------------------------------------------------------------------------
(* Two runs *)

-----------------------------------------------------------------------------
(* C21: parsing terminates for every token stream: the parser is never in *)
(* a loop whose pass consumes no token, in particular not in the body     *)
(* loop of a function definition when its statement list stops on a token *)
(* that is neither 'return' nor BLOCK_END.                                *)
C21_ParsingTerminates == pc # "hung"

-----------------------------------------------------------------------------
(* C22: every value the symbol table holds is a number, an integer or a   *)
(* real, whichever of its three writers stored it: an assignment, the     *)
(* initialisation of a for-loop variable or of a function parameter.      *)
C22_SymbolTableHoldsNumbers ==
    \A name \in DOMAIN symbolTable : symbolTable[name].cls \in {"int", "float"}

-----------------------------------------------------------------------------
(* Lowering of block bodies *)

\* line h opens a block of an if chain or of a loop
OpensBody(h) == FirstWord(h) \in {"if", "elif", "else", "while", "for"}

\* stdout[k] stores the value written on the assignment line j into its target
StoresLine(k, j) ==
    /\ stdout[k].op = "ASSIGN"
    /\ stdout[k].result = PyStr(FirstWord(j))
    /\ stdout[k].arg1 = PyStr(inp[j].words[3])

\* C23: the bodies of the if consequent, of every elif, of the else, of while and of for
\* are lowered: an assignment standing in such a body has its instruction in the output,
\* after the IFZ that guards the body and before the GOTO that leaves it
C23_BlockBodiesLowered ==
    pc = "printed" =>
        \A h \in DOMAIN inp : OpensBody(h) =>
            \A j \in DirectStatements(h) :
                IsAssignmentLine(j) /\ Len(inp[j].words) = 3 =>
                    \E k \in DOMAIN stdout :
                        /\ StoresLine(k, j)
                        /\ \E i \in 1..(k - 1) : stdout[i].op = "IFZ"
                        /\ \E m \in (k + 1)..Len(stdout) : stdout[m].op = "GOTO"

-----------------------------------------------------------------------------
(* Control flow of an if chain *)

\* the lines whose statement evaluates a test, in source order
TestLines == LinesWhere(LAMBDA i : FirstWord(i) \in {"if", "elif", "while", "for"})

\* the positions of the conditional jumps of the output, in order: one per lowered test
Jumps == Positions("IFZ")

\* the chain that line i continues with an elif has no else
ChainHasElse(i) ==
    \E h \in (i + 1)..Len(inp) :
        /\ FirstWord(h) = "else"
        /\ inp[h].indent = inp[i].indent
        /\ \A k \in (i + 1)..h :
              \/ inp[k].indent > inp[i].indent
              \/ inp[k].indent = inp[i].indent /\ FirstWord(k) \in {"elif", "else"}

\* C24: in an if chain without else, control that finishes the body of a branch goes on
\* to the end of the chain and never into the test of a later elif: the instruction that
\* bears the label of an elif test, the target of the conditional jump of the branch
\* before it, is entered by that jump only, the instruction in front of it being a GOTO
C24_BranchBodyNeverFallsIntoNextTest ==
    pc = "printed" =>
        \A n \in DOMAIN TestLines :
            /\ n > 1
            /\ n <= Len(Jumps)
            /\ FirstWord(TestLines[n]) = "elif"
            /\ ~ChainHasElse(TestLines[n])
            => \A p \in DOMAIN stdout :
                   stdout[p].label = stdout[Jumps[n - 1]].arg2 =>
                       p > 1 /\ stdout[p - 1].op = "GOTO"

-----------------------------------------------------------------------------
(* Labels of the output *)

\* the label the jump ins goes to
Target(ins) == IF ins.op = "IFZ" THEN ins.arg2 ELSE ins.arg1

\* C25: every label an IFZ or a GOTO of the output jumps to is attached to an instruction
\* of the output: the false label of an if with else to the first instruction of the
\* alternate, the end label to the first instruction after the construct or to END, no
\* pending label being replaced before an instruction has taken it
C25_EveryJumpTargetAttached ==
    pc = "printed" =>
        \A k \in DOMAIN stdout : stdout[k].op \in {"IFZ", "GOTO"} =>
            \E p \in DOMAIN stdout : stdout[p].label = Target(stdout[k])

-----------------------------------------------------------------------------
(* Lowering of expressions *)

\* how many parentheses of words are open before word k, counted from word lo
OpenIn(words, lo, k) ==
    Cardinality({j \in lo..(k - 1) : words[j] = "("})
        - Cardinality({j \in lo..(k - 1) : words[j] = ")"})

\* the places in lo..hi of the operators ops of words that stand inside no parenthesis
OutermostIn(words, lo, hi, ops) ==
    {k \in lo..hi : words[k] \in ops /\ OpenIn(words, lo, k) = 0}

\* the operators by precedence, the loosest first
Levels == << {"==", "!=", "<", ">", "<=", ">="}, {"+", "-"}, {"*", "/"} >>

\* the loosest level that has an operator outside every parenthesis of words[lo..hi], or 0
LevelOf(words, lo, hi) ==
    IF OutermostIn(words, lo, hi, Levels[1]) # {} THEN 1
    ELSE IF OutermostIn(words, lo, hi, Levels[2]) # {} THEN 2
    ELSE IF OutermostIn(words, lo, hi, Levels[3]) # {} THEN 3
    ELSE 0

\* the place where words[lo..hi] splits: the last outermost operator of that level
SplitOf(words, lo, hi) == LastOf(OutermostIn(words, lo, hi, Levels[LevelOf(words, lo, hi)]))

RECURSIVE Reading(_, _, _)
\* how arithmetic reads words[lo..hi]: a comparison of two sides, else a sum, else a
\* product, each grouping to the left, else one operand or an expression in parentheses
Reading(words, lo, hi) ==
    IF lo = hi THEN [leaf |-> words[lo]]
    ELSE IF LevelOf(words, lo, hi) = 0 THEN Reading(words, lo + 1, hi - 1)
    ELSE [op |-> words[SplitOf(words, lo, hi)],
          left |-> Reading(words, lo, SplitOf(words, lo, hi) - 1),
          right |-> Reading(words, SplitOf(words, lo, hi) + 1, hi)]

IsLeaf(tree) == "leaf" \in DOMAIN tree

RECURSIVE OperatorsIn(_)
\* the number of binary operator nodes of tree
OperatorsIn(tree) ==
    IF IsLeaf(tree) THEN 0 ELSE OperatorsIn(tree.left) + OperatorsIn(tree.right) + 1

\* the operand that names the value of tree when its temporaries are taken from T<base>
\* on: the word of a leaf, else the last temporary taken
NameOf(tree, base) ==
    IF IsLeaf(tree) THEN PyStr(tree.leaf)
    ELSE PyStr("T" \o ToString(base + OperatorsIn(tree) - 1))

RECURSIVE PostOrder(_, _)
\* one instruction per operator node of tree, the left operand's before the right
\* operand's before the node's own, each into the next temporary from T<base> on
PostOrder(tree, base) ==
    IF IsLeaf(tree) THEN <<>>
    ELSE PostOrder(tree.left, base)
         \o PostOrder(tree.right, base + OperatorsIn(tree.left))
         \o << [op |-> tree.op,
                arg1 |-> NameOf(tree.left, base),
                arg2 |-> NameOf(tree.right, base + OperatorsIn(tree.left)),
                result |-> NameOf(tree, base)] >>

\* line j assigns the result of a call
IsCallAssignment(j) ==
    /\ IsAssignmentLine(j)
    /\ Len(inp[j].words) >= 4
    /\ inp[j].words[4] = "("
    /\ inp[j].words[3] # "("

\* the expression of line j: the right-hand side of an assignment, the value of a
\* return, the test of an if, an elif or a while
ExpressionOf(j) ==
    IF FirstWord(j) = "return" THEN Reading(inp[j].words, 2, Len(inp[j].words))
    ELSE IF FirstWord(j) \in {"if", "elif", "while"}
    THEN Reading(inp[j].words, 2, Len(inp[j].words) - 1)
    ELSE Reading(inp[j].words, 3, Len(inp[j].words))

\* stdout[p] is an instruction that uses the value of an expression: the store of an
\* assignment other than of a call's result, a RETURN, the IFZ of a test
UsesExpression(p) ==
    \/ stdout[p].op \in {"RETURN", "IFZ"}
    \/ /\ stdout[p].op = "ASSIGN"
       /\ ~(p > 1 /\ stdout[p - 1].op = "LCALL" /\ stdout[p - 1].arg2 = stdout[p].arg1)

\* stdout[p] is the instruction that uses the expression of a line like line j
UserOf(p, j) ==
    IF stdout[p].op = "RETURN" THEN FirstWord(j) = "return"
    ELSE IF stdout[p].op = "IFZ" THEN FirstWord(j) \in {"if", "elif", "while"}
    ELSE /\ IsAssignmentLine(j)
         /\ ~IsCallAssignment(j)
         /\ stdout[p].result = PyStr(FirstWord(j))

\* the instructions in front of stdout[p] are the post-order code of tree with
\* temporaries from T<base> on, and stdout[p] uses the temporary of the root
LoweredBefore(p, tree, base) ==
    /\ OperatorsIn(tree) < p
    /\ \A i \in 1..OperatorsIn(tree) :
          [f \in {"op", "arg1", "arg2", "result"} |-> stdout[p - OperatorsIn(tree) - 1 + i][f]]
              = PostOrder(tree, base)[i]
    /\ stdout[p].arg1 = NameOf(tree, base)

\* stdout[q] computes an operator of an expression
IsOperation(q) == \E l \in DOMAIN Levels : stdout[q].op \in Levels[l]

-----------------------------------------------------------------------------
(* Calls the parser accepted *)

\* the nodes of the top-level statements of the tree the parser returned
TopNodes == [k \in DOMAIN parser.tree.body[1].body |-> parser.tree.body[1].body[k].body[1]]

\* the name the statement node calls, as a statement or on the right of an assignment;
\* None when it calls nothing
CalledBy(node) ==
    IF node.cls = "FunctionCallNode" THEN node.funcName
    ELSE IF node.nodeType = "ASSIGNMENT" /\ node.body[1].right.cls = "FunctionCallNode"
    THEN node.body[1].right.funcName
    ELSE NoneV

\* C27: generate_func_call is never reached with a name that is absent from the function
\* table: every call of the tree the parser returned, other than of print, is lowered to
\* an LCALL of its callee, so the output has as many LCALLs of a name as the tree has
\* calls of it
C27_EveryAcceptedCallGivesLCALL ==
    pc = "printed" =>
        \A name \in { CalledBy(TopNodes[k]) : k \in DOMAIN TopNodes } \ {NoneV, PyStr("print")} :
            Cardinality({m \in DOMAIN stdout : stdout[m].op = "LCALL" /\ stdout[m].arg1 = name})
                = Cardinality({k \in DOMAIN TopNodes : CalledBy(TopNodes[k]) = name})

-----------------------------------------------------------------------------
(* Names of temporaries and labels *)

\* what new_temp() and new_label() return at count i
TempName(i) == PyStr("T" \o ToString(i))

LabelName(i) == PyStr("L" \o ToString(i))

\* the temporary the instruction writes: its result, for an LCALL its second operand
Written(ins) == IF ins.op = "LCALL" THEN ins.arg2 ELSE ins.result

\* the positions of the instructions that write a temporary, in order
TempWriters ==
    SelectSeq([m \in 1..Len(stdout) |-> m],
              LAMBDA m : Written(stdout[m]) \in {TempName(i) : i \in 0..Len(stdout)})

\* the generated labels the output jumps to or bears
LabelsUsed ==
    { l \in {LabelName(i) : i \in 0..Len(stdout)} :
        \E m \in DOMAIN stdout :
            \/ stdout[m].label = l
            \/ stdout[m].op \in {"IFZ", "GOTO"} /\ Target(stdout[m]) = l }

\* C28: temporaries and generated labels are named from two counters that start at 0
\* and advance independently of each other: the instructions that write a temporary
\* write T0, T1, ... in the order of the list, each temporary by exactly one
\* instruction, as many as the temporary counter says, whatever labels were taken
\* between them; the generated labels of the list are L0, L1, ... up to the label
\* counter; and the list ends with its only END
C28_TemporariesAndLabelsCountSeparately ==
    pc = "printed" =>
        /\ Len(TempWriters) = tac.temp_count
        /\ \A k \in DOMAIN TempWriters : Written(stdout[TempWriters[k]]) = TempName(k - 1)
        /\ LabelsUsed = {LabelName(i) : i \in 0..(tac.labelCount - 1)}
        /\ Positions("END") = <<Len(stdout)>>

\* a program is compiled that takes labels between temporaries: three tests with their
\* labels, the third temporary written under the second label
C28_Witness ==
    /\ pc = "printed"
    /\ tac.temp_count >= 3
    /\ tac.labelCount >= 3
    /\ \E m \in DOMAIN stdout :
          stdout[m].result = TempName(2) /\ stdout[m].label = LabelName(1)

-----------------------------------------------------------------------------
\* C29: no generated label is attached to more than one instruction of the output, so
\* every IFZ and GOTO has one target; also when a while takes over the label left
\* pending by the statement before it and the operands of its test are compound
C29_NoLabelAttachedTwice ==
    pc = "printed" =>
        \A m, n \in DOMAIN stdout :
            stdout[m].label \in LabelsUsed /\ stdout[m].label = stdout[n].label => m = n

-----------------------------------------------------------------------------
(* A program compiled after another *)

\* the step parses the tokens of the second program
ParsesSecond == run = 2 /\ pc = "lexed" /\ pc' # "lexed"

\* the step ends as the parser started on empty tables ends on the same tokens: with the
\* same exception or none, the same tests evaluated and the same assignments stored
EndsAsFromFresh ==
    \E fresh \in {Parser(EmptyDict, EmptyDict)} :
        /\ exc'.type = fresh.p.exc.type
        /\ parser'.tests = fresh.p.tests
        /\ parser'.writes = fresh.p.writes

\* C30: what compiling a program gives depends on its lines only, not on a program
\* parsed before it in the same process: it is accepted or rejected, and its tests and
\* the writes they guard come out, as when it is parsed from a fresh state
C30_EarlierProgramDoesNotLeak == [][ParsesSecond => EndsAsFromFresh]_vars

====
